---------------------------- MODULE Spec2Model ----------------------------
(***************************************************************************)
(* Statement reconciliation and transaction matching of the agency         *)
(* management application:                                                 *)
(*   - utils/commission_reconciliation.py  CommissionReconciler            *)
(*   - utils/agency_statement_matcher.py   policy matcher, attribution     *)
(*   - utils/agent_assignment_logic.py     agent assignment strategies     *)
(*   - pages/agency_reconciliation.py      review step and import          *)
(*                                                                         *)
(* Text is modelled as sequences of one-character strings; the names and   *)
(* policy numbers that appear in states are string literals decoded by     *)
(* Chars.  An amount of the reconciler is given in hundredths and stands   *)
(* for the float read from that decimal; dates are day numbers.            *)
(***************************************************************************)
EXTENDS Integers, Sequences, FiniteSets, TLC

VARIABLES
  \* CommissionReconciler.match_transactions
  expected_commissions,      \* the expected-commission rows, in index order
  carrier_statement,         \* the normalized statement rows, in index order
  pc,                        \* "match" (in the loop), "done" (returned), "raised"
  exp_idx,                   \* index of the expected row the loop handles next
  matched,
  missing_from_statement,
  unexpected_in_statement,
  amount_discrepancies,
  matched_expected_indices,
  matched_carrier_indices,
  filed,                     \* history: which list each row was filed in, in order
  summary,
  \* the policy matcher and the assignment strategies
  existing_policies,         \* the policy list handed to the matcher
  stmt_trans,                \* the parsed statement transaction
  agency_id,                 \* the agency the caller works for
  call,                      \* the function that was applied, "none" before
  match_result,              \* what find_matching_policy returned
  agent_result,              \* what an auto_assign function returned
  \* the agency reconciliation page and the tables it reads and writes
  agents,                    \* table agents, in query order
  policies_table,            \* table policies, in query order
  uploaded_df,               \* session: the rows of the uploaded statement
  recon_step,                \* session: the step of the page, 2..4 (1 after import)
  assignment_mode,           \* session
  selected_agent_id,         \* session
  agents_list,               \* session: the agent ids offered for assignment
  processed,                 \* session: 'agency_matched_transactions' is set
  agency_matched_transactions,
  agency_unmatched_transactions,
  agent_assign,              \* widget state of the selectboxes agent_assign_<idx>
  import_offered,            \* the import button is on the screen
  insert_calls,              \* history: the records handed to insert(), per call
  stored_rows,               \* the rows the storage accepted
  import_result,             \* <<success, message, count>> of the last import, None before
  policy_number_hash,        \* the values hash('POL-001') % 10000 can have in this interpreter
  classification_runs,       \* history: what the runs of the classification returned
  \* a function of agent_assignment_logic.py, agency_statement_matcher.py or
  \* commission_reconciliation.py, called on its own
  assign_call,               \* the function called last
  assign_args,               \* its arguments at the call
  assign_args_after,         \* its arguments at the return
  assign_result              \* what it returned

reconVars == <<expected_commissions, carrier_statement, pc, exp_idx, matched,
               missing_from_statement, unexpected_in_statement,
               amount_discrepancies, matched_expected_indices,
               matched_carrier_indices, filed, summary>>

matcherVars == <<existing_policies, stmt_trans, agency_id, call, match_result,
                 agent_result>>

agencyVars == <<agents, policies_table, uploaded_df, recon_step, assignment_mode,
                selected_agent_id, agents_list, processed,
                agency_matched_transactions, agency_unmatched_transactions,
                agent_assign, import_offered, insert_calls, stored_rows,
                import_result, policy_number_hash, classification_runs>>

assignVars == <<assign_call, assign_args, assign_args_after, assign_result>>

vars == <<reconVars, matcherVars, agencyVars, assignVars>>

\* what an action of one component leaves alone
notRecon   == <<matcherVars, agencyVars, assignVars>>
notMatcher == <<reconVars, agencyVars, assignVars>>
notAgency  == <<reconVars, matcherVars, assignVars>>
notAssign  == <<reconVars, matcherVars, agencyVars>>

(***************************************************************************)
(* Python values                                                           *)
(***************************************************************************)
None == "None"

SetMin(S) == CHOOSE x \in S : \A y \in S : x <= y
SetMax(S) == CHOOSE x \in S : \A y \in S : x >= y
Abs(x) == IF x < 0 THEN -x ELSE x

(***************************************************************************)
(* float: IEEE 754 binary64 with round-to-nearest-even, as Python computes *)
(* a - b, a / b and a * b.  A natural number of any size is the sequence   *)
(* of its digits to the base 2^15, least significant first, without        *)
(* leading zeros; a float is a sign, a significand of 53 bits (no digits   *)
(* for 0.0) and an exponent: its value is man * 2^exp.  Amounts are far    *)
(* from the ends of the exponent range, so there are no subnormals and no  *)
(* infinities.                                                             *)
(***************************************************************************)
LimbBits == 15
Limb     == 32768
Pow2     == <<1, 2, 4, 8, 16, 32, 64, 128, 256, 512, 1024, 2048, 4096, 8192, 16384>>

RECURSIVE nat_of(_)
nat_of(n) == IF n = 0 THEN <<>> ELSE <<n % Limb>> \o nat_of(n \div Limb)

nat_trim(a) ==
  LET used == {i \in 1..Len(a) : a[i] # 0}
  IN  IF used = {} THEN <<>> ELSE SubSeq(a, 1, SetMax(used))

nat_limb(a, i) == IF i >= 1 /\ i <= Len(a) THEN a[i] ELSE 0

\* bit i of a, counted from 1 at the least significant end; 0 outside
nat_bit(a, i) ==
  IF i < 1 THEN 0
  ELSE (nat_limb(a, ((i - 1) \div LimbBits) + 1) \div Pow2[((i - 1) % LimbBits) + 1]) % 2

\* the number of bits of a
nat_bits(a) ==
  IF a = <<>> THEN 0
  ELSE LimbBits * (Len(a) - 1)
       + Cardinality({j \in 1..LimbBits : Pow2[j] <= a[Len(a)]})

nat_less(a, b) ==
  IF Len(a) # Len(b) THEN Len(a) < Len(b)
  ELSE LET differ == {i \in 1..Len(a) : a[i] # b[i]}
       IN  differ # {} /\ a[SetMax(differ)] < b[SetMax(differ)]

RECURSIVE nat_add_from(_, _, _, _)
nat_add_from(a, b, i, carry) ==
  IF i > Len(a) /\ i > Len(b) THEN (IF carry = 1 THEN <<1>> ELSE <<>>)
  ELSE LET t == nat_limb(a, i) + nat_limb(b, i) + carry
       IN  <<t % Limb>> \o nat_add_from(a, b, i + 1, t \div Limb)

nat_add(a, b) == nat_add_from(a, b, 1, 0)

\* a - b for a >= b
RECURSIVE nat_sub_from(_, _, _, _)
nat_sub_from(a, b, i, borrow) ==
  IF i > Len(a) THEN <<>>
  ELSE LET t == nat_limb(a, i) - nat_limb(b, i) - borrow
       IN  <<(t + Limb) % Limb>> \o nat_sub_from(a, b, i + 1, IF t < 0 THEN 1 ELSE 0)

nat_sub(a, b) == nat_trim(nat_sub_from(a, b, 1, 0))

\* the LimbBits bits of a that start at bit from, as a digit
RECURSIVE nat_window(_, _, _)
nat_window(a, from, j) ==
  IF j > LimbBits THEN 0
  ELSE nat_bit(a, from + j - 1) * Pow2[j] + nat_window(a, from, j + 1)

\* a * 2^k for k >= 0, a div 2^(-k) for k < 0
nat_shift(a, k) ==
  LET bits == nat_bits(a) + k
  IN  IF bits <= 0 THEN <<>>
      ELSE [j \in 1..((bits + LimbBits - 1) \div LimbBits) |->
              nat_window(a, LimbBits * (j - 1) + 1 - k, 1)]

\* a * d for a digit d
RECURSIVE nat_mul_limb(_, _, _, _)
nat_mul_limb(a, d, i, carry) ==
  IF i > Len(a) THEN (IF carry > 0 THEN <<carry>> ELSE <<>>)
  ELSE LET t == a[i] * d + carry
       IN  <<t % Limb>> \o nat_mul_limb(a, d, i + 1, t \div Limb)

RECURSIVE nat_mul_from(_, _, _)
nat_mul_from(a, b, j) ==
  IF j > Len(b) THEN <<>>
  ELSE nat_add(nat_trim([i \in 1..(j - 1) |-> 0] \o nat_mul_limb(a, b[j], 1, 0)),
               nat_mul_from(a, b, j + 1))

nat_mul(a, b) == nat_mul_from(a, b, 1)

\* one step of the long division by b: the next bit of the dividend comes
\* in, st = <<quotient so far, remainder so far>>
nat_div_step(st, bit, b) ==
  CHOOSE next \in
    {IF nat_less(r2, b)
       THEN <<nat_shift(st[1], 1), r2>>
       ELSE <<nat_add(nat_shift(st[1], 1), <<1>>), nat_sub(r2, b)>> :
     r2 \in {nat_add(nat_shift(st[2], 1), nat_of(bit))}} : TRUE

\* the long division of a * 2^k by b over the bits hi down to lo of the
\* dividend: the upper half of the range, then the lower half
RECURSIVE nat_div_range(_, _, _, _, _, _)
nat_div_range(a, k, b, st, hi, lo) ==
  IF hi = lo THEN nat_div_step(st, nat_bit(a, hi - k), b)
  ELSE CHOOSE next \in
         {nat_div_range(a, k, b, upper, (hi + lo) \div 2, lo) :
          upper \in {nat_div_range(a, k, b, st, hi, ((hi + lo) \div 2) + 1)}} : TRUE

\* <<(a * 2^k) div b, (a * 2^k) mod b>> for a > 0
nat_divmod(a, k, b) == nat_div_range(a, k, b, <<<<>>, <<>>>>, nat_bits(a) + k, 1)

float_zero == [neg |-> FALSE, man |-> <<>>, exp |-> 0]

\* the float nearest to (m + f) * 2^e, ties to even, where 0 <= f < 1 and
\* inexact says f > 0; an inexact m has more than 53 bits
float_round(neg, m, e, inexact) ==
  IF m = <<>> THEN float_zero
  ELSE IF nat_bits(m) <= 53
    THEN [neg |-> neg, man |-> nat_shift(m, 53 - nat_bits(m)),
          exp |-> e - (53 - nat_bits(m))]
  ELSE LET drop  == nat_bits(m) - 53
           kept  == nat_shift(m, -drop)
           half  == nat_bit(m, drop) = 1
           below == inexact \/ \E i \in 1..(drop - 1) : nat_bit(m, i) = 1
           up    == half /\ (below \/ nat_bit(kept, 1) = 1)
           sum   == IF up THEN nat_add(kept, <<1>>) ELSE kept
       IN  IF nat_bits(sum) = 54
             THEN [neg |-> neg, man |-> nat_shift(sum, -1), exp |-> e + drop + 1]
             ELSE [neg |-> neg, man |-> sum, exp |-> e + drop]

\* float(n) for an int n >= 0
float_of_int(n) == float_round(FALSE, nat_of(n), 0, FALSE)

\* the significand of x at exponent e <= x.exp
float_man_at(x, e) == nat_shift(x.man, x.exp - e)

\* x < y for x, y >= 0
float_less(x, y) ==
  IF y.man = <<>> THEN FALSE
  ELSE IF x.man = <<>> THEN TRUE
  ELSE LET e == IF x.exp < y.exp THEN x.exp ELSE y.exp
       IN  nat_less(float_man_at(x, e), float_man_at(y, e))

\* x - y for x, y >= 0
float_sub(x, y) ==
  LET e == IF x.man = <<>> THEN y.exp
           ELSE IF y.man = <<>> THEN x.exp
           ELSE IF x.exp < y.exp THEN x.exp ELSE y.exp
  IN  CHOOSE f \in
        {IF nat_less(m[1], m[2])
           THEN float_round(TRUE, nat_sub(m[2], m[1]), e, FALSE)
           ELSE float_round(FALSE, nat_sub(m[1], m[2]), e, FALSE) :
         m \in {<<float_man_at(x, e), float_man_at(y, e)>>}} : TRUE

float_abs(x) == [x EXCEPT !.neg = FALSE]

\* x / y for y # 0.0
float_div(x, y) ==
  IF x.man = <<>> THEN float_zero
  ELSE CHOOSE f \in
         {float_round(x.neg # y.neg, qr[1], x.exp - y.exp - 56, qr[2] # <<>>) :
          qr \in {nat_divmod(x.man, 56, y.man)}} : TRUE

float_mul(x, y) ==
  CHOOSE f \in
    {float_round(x.neg # y.neg, p, x.exp + y.exp, FALSE) :
     p \in {nat_mul(x.man, y.man)}} : TRUE

\* the float of a decimal amount given in hundredths, as pd.to_numeric and
\* float() read it: the float nearest to cents / 100
float_of_cents(cents) == float_div(float_of_int(cents), float_of_int(100))

(***************************************************************************)
(* str: the characters of the string literals used in the model.           *)
(***************************************************************************)
Chars(s) ==
  CASE s = ""               -> <<>>
    [] s = "Mary Johnson"   -> <<"M","a","r","y"," ","J","o","h","n","s","o","n">>
    [] s = "mary johnson "  -> <<"m","a","r","y"," ","j","o","h","n","s","o","n"," ">>
    [] s = "Mary Johnsen"   -> <<"M","a","r","y"," ","J","o","h","n","s","e","n">>
    [] s = "Mary Johns"     -> <<"M","a","r","y"," ","J","o","h","n","s">>
    [] s = "Mary Jones"     -> <<"M","a","r","y"," ","J","o","n","e","s">>
    [] s = "Maria Johnsen"  -> <<"M","a","r","i","a"," ","J","o","h","n","s","e","n">>
    [] s = "John Johnstone" -> <<"J","o","h","n"," ","J","o","h","n","s","t","o","n","e">>
    [] s = "Mary Doe"       -> <<"M","a","r","y"," ","D","o","e">>
    [] s = "Johnson Mary"   -> <<"J","o","h","n","s","o","n"," ","M","a","r","y">>
    [] s = "Tom Wilson"     -> <<"T","o","m"," ","W","i","l","s","o","n">>
    [] s = "POL-001"        -> <<"P","O","L","-","0","0","1">>
    [] s = "POL-002"        -> <<"P","O","L","-","0","0","2">>
    [] s = " "              -> <<" ">>
    [] s = "nan"            -> <<"n","a","n">>
    [] s = "Grand Total"    -> <<"G","r","a","n","d"," ","T","o","t","a","l">>
    [] s = "total"          -> <<"t","o","t","a","l">>
    [] s = "totals"         -> <<"t","o","t","a","l","s">>
    [] s = "subtotal"       -> <<"s","u","b","t","o","t","a","l">>
    [] s = "sub-total"      -> <<"s","u","b","-","t","o","t","a","l">>
    [] s = "grand total"    -> <<"g","r","a","n","d"," ","t","o","t","a","l">>
    [] s = "sum"            -> <<"s","u","m">>
    [] s = "Policy Number"      -> <<"P","o","l","i","c","y"," ","N","u","m","b","e","r">>
    [] s = "Policy #"           -> <<"P","o","l","i","c","y"," ","#">>
    [] s = "Policy"             -> <<"P","o","l","i","c","y">>
    [] s = "Insured Name"       -> <<"I","n","s","u","r","e","d"," ","N","a","m","e">>
    [] s = "Client Name"        -> <<"C","l","i","e","n","t"," ","N","a","m","e">>
    [] s = "Name"               -> <<"N","a","m","e">>
    [] s = "Commission"         -> <<"C","o","m","m","i","s","s","i","o","n">>
    [] s = "Commission Amount"  -> <<"C","o","m","m","i","s","s","i","o","n"," ","A","m","o","u","n","t">>
    [] s = "Amount"             -> <<"A","m","o","u","n","t">>
    [] s = "Effective Date"     -> <<"E","f","f","e","c","t","i","v","e"," ","D","a","t","e">>
    [] s = "Eff Date"           -> <<"E","f","f"," ","D","a","t","e">>
    [] s = "Date"               -> <<"D","a","t","e">>
    [] s = "Type"               -> <<"T","y","p","e">>
    [] s = "Transaction Type"   -> <<"T","r","a","n","s","a","c","t","i","o","n"," ","T","y","p","e">>
    [] s = "Trans Type"         -> <<"T","r","a","n","s"," ","T","y","p","e">>
    [] s = "Policy#"            -> <<"P","o","l","i","c","y","#">>
    [] s = "Named Insured"      -> <<"N","a","m","e","d"," ","I","n","s","u","r","e","d">>
    [] s = "Client"             -> <<"C","l","i","e","n","t">>
    [] s = "Commission Amt"     -> <<"C","o","m","m","i","s","s","i","o","n"," ","A","m","t">>
    [] s = "Transaction"        -> <<"T","r","a","n","s","a","c","t","i","o","n">>
    [] s = "Insured"            -> <<"I","n","s","u","r","e","d">>
    [] s = "Amt"                -> <<"A","m","t">>
    [] s = "Effective"          -> <<"E","f","f","e","c","t","i","v","e">>
    [] s = "PolicyNumber"       -> <<"P","o","l","i","c","y","N","u","m","b","e","r">>
    [] s = "POLICY NUMBER"      -> <<"P","O","L","I","C","Y"," ","N","U","M","B","E","R">>
    [] s = "policy"             -> <<"p","o","l","i","c","y">>
    [] s = "AMT"                -> <<"A","M","T">>
    [] s = "Allstate Agent"     -> <<"A","l","l","s","t","a","t","e"," ","A","g","e","n","t">>
    [] s = "Agent"              -> <<"A","g","e","n","t">>
    [] s = "state farm"         -> <<"s","t","a","t","e"," ","f","a","r","m">>
    [] s = "progressive"        -> <<"p","r","o","g","r","e","s","s","i","v","e">>
    [] s = "allstate"           -> <<"a","l","l","s","t","a","t","e">>

ToLower ==
  [A |-> "a", B |-> "b", C |-> "c", D |-> "d", E |-> "e", F |-> "f", G |-> "g",
   H |-> "h", I |-> "i", J |-> "j", K |-> "k", L |-> "l", M |-> "m", N |-> "n",
   O |-> "o", P |-> "p", Q |-> "q", R |-> "r", S |-> "s", T |-> "t", U |-> "u",
   V |-> "v", W |-> "w", X |-> "x", Y |-> "y", Z |-> "z"]

\* str.lower()
str_lower(s) ==
  [i \in 1..Len(s) |-> IF s[i] \in DOMAIN ToLower THEN ToLower[s[i]] ELSE s[i]]

\* str.strip(): leading and trailing whitespace removed
str_strip(s) ==
  LET ink == {i \in 1..Len(s) : s[i] # " "}
  IN  IF ink = {} THEN <<>> ELSE SubSeq(s, SetMin(ink), SetMax(ink))

\* sub in s
str_contains(s, sub) ==
  \E i \in 1..(Len(s) - Len(sub) + 1) : SubSeq(s, i, i + Len(sub) - 1) = sub

\* set(str.split()): the set of maximal runs of non-whitespace characters
str_split_set(s) ==
  LET starts == {i \in 1..Len(s) : s[i] # " " /\ (i = 1 \/ s[i-1] = " ")}
      stop(i) == SetMin({j \in i..Len(s) : j = Len(s) \/ s[j+1] = " "})
  IN  {SubSeq(s, i, stop(i)) : i \in starts}

(***************************************************************************)
(* difflib.SequenceMatcher(None, a, b).ratio(), no junk: the matching      *)
(* blocks are found by taking the longest common block (earliest in a,     *)
(* then earliest in b) and recursing on both sides of it.                  *)
(***************************************************************************)
RECURSIVE match_len(_, _, _, _, _, _)
match_len(a, b, i, j, ahi, bhi) ==
  IF i > ahi \/ j > bhi THEN 0
  ELSE IF a[i] # b[j] THEN 0
  ELSE 1 + match_len(a, b, i + 1, j + 1, ahi, bhi)

find_longest_match(a, b, alo, ahi, blo, bhi) ==
  LET cands == {<<i, j, match_len(a, b, i, j, ahi, bhi)>> :
                   i \in alo..ahi, j \in blo..bhi}
      k     == SetMax({c[3] : c \in cands})
      bests == {c \in cands : c[3] = k}
  IN  CHOOSE c \in bests :
        \A d \in bests : c[1] < d[1] \/ (c[1] = d[1] /\ c[2] <= d[2])

RECURSIVE matching_blocks_size(_, _, _, _, _, _)
matching_blocks_size(a, b, alo, ahi, blo, bhi) ==
  IF alo > ahi \/ blo > bhi THEN 0
  ELSE LET m == find_longest_match(a, b, alo, ahi, blo, bhi)
       IN  IF m[3] = 0 THEN 0
           ELSE m[3]
                + matching_blocks_size(a, b, alo, m[1] - 1, blo, m[2] - 1)
                + matching_blocks_size(a, b, m[1] + m[3], ahi, m[2] + m[3], bhi)

\* ratio() = 2.0 * M / T, kept as the pair <<2M, T>> (1.0 when T = 0)
ratio(a, b) ==
  IF Len(a) + Len(b) = 0 THEN <<1, 1>>
  ELSE <<2 * matching_blocks_size(a, b, 1, Len(a), 1, Len(b)), Len(a) + Len(b)>>

(***************************************************************************)
(* Fuzzy name matchers                                                     *)
(***************************************************************************)
\* agency_statement_matcher.fuzzy_match_customer: a score 0..100.
\* int(ratio * 100) is the floor of 200*M/T for every T below 100.
fuzzy_match_customer(stmt_customer, db_customer) ==
  IF stmt_customer = <<>> \/ db_customer = <<>> THEN 0
  ELSE LET s1 == str_strip(str_lower(stmt_customer))
           s2 == str_strip(str_lower(db_customer))
           r  == ratio(s1, s2)
       IN  IF s1 = s2 THEN 100 ELSE (r[1] * 100) \div r[2]

\* CommissionReconciler.fuzzy_match_name with the default threshold 0.8
fuzzy_match_name(name1, name2) ==
  LET n1 == str_strip(str_lower(name1))
      n2 == str_strip(str_lower(name2))
      n1_parts == str_split_set(n1)
      n2_parts == str_split_set(n2)
      r  == ratio(n1, n2)
  IN  IF Cardinality(n1_parts) < Cardinality(n2_parts) /\ n1_parts \subseteq n2_parts
        THEN TRUE
      ELSE IF ~(Cardinality(n1_parts) < Cardinality(n2_parts)) /\ n2_parts \subseteq n1_parts
        THEN TRUE
      ELSE r[1] * 10 >= 8 * r[2]

(***************************************************************************)
(* Bounds and input domains                                                *)
(***************************************************************************)
MaxExpected  == 2
MaxStatement == 2

SeqsUpTo(S, n) == UNION {[1..k -> S] : k \in 0..n}

ReconPolicyNumbers == {"POL-001", "POL-002"}

\* amounts in hundredths: 0.00, 4.60 and 4.83 (4.60 plus exactly 5 percent)
ExpectedAmounts  == {0, 460}
StatementAmounts == {460, 483}

ExpectedRows ==
  [policy_number : ReconPolicyNumbers, client_name : {"Mary Johnson"},
   effective_date : {0}, expected_commission : ExpectedAmounts]

StatementRows ==
  [policy_number : ReconPolicyNumbers,
   client_name : {"Johnson Mary", "Tom Wilson"},
   effective_date : {0, 15}, commission_amount : StatementAmounts]

ReconNames == {"Mary Johnson", "Johnson Mary", "Tom Wilson"}

\* fuzzy_match_name over the names of the input domain, evaluated once
fuzzy_match_name_memo ==
  {<<p[1], p[2], fuzzy_match_name(Chars(p[1]), Chars(p[2]))>> :
      p \in ReconNames \X ReconNames}

\* line 285: str(a).strip() == str(b).strip()
policy_number_equal(a, b) == str_strip(a) = str_strip(b)

policy_number_equal_memo ==
  {<<p[1], p[2], policy_number_equal(Chars(p[1]), Chars(p[2]))>> :
      p \in ReconPolicyNumbers \X ReconPolicyNumbers}

(***************************************************************************)
(* CommissionReconciler.match_transactions                                 *)
(* Scores are kept multiplied by match_tolerance_days, which makes the     *)
(* date share 15 * (1 - date_diff / match_tolerance_days) a whole number.  *)
(***************************************************************************)
match_tolerance_days == 30
amount_tolerance_pct == 5

\* the floats of the amounts of the input domain, evaluated once
float_of_cents_memo ==
  {<<c, float_of_cents(c)>> : c \in ExpectedAmounts \cup StatementAmounts}

amount_float(cents) == (CHOOSE t \in float_of_cents_memo : t[1] = cents)[2]

\* line 299: abs(expected - actual) / expected * 100, on floats
score_amount_diff_pct(expected, actual) ==
  CHOOSE pct \in
    {float_mul(q, float_of_int(100)) :
     q \in {float_div(d, expected) :
            d \in {float_abs(float_sub(expected, actual))}}} : TRUE

\* line 314: abs(amount_diff) / expected * 100, on floats
amount_diff_pct_of(amount_diff, expected) ==
  CHOOSE pct \in
    {float_mul(q, float_of_int(100)) :
     q \in {float_div(d, expected) : d \in {float_abs(amount_diff)}}} : TRUE

\* lines 299 and 313-314 for one pair of amounts, expected not 0
amounts_of(expected, actual) ==
  CHOOSE r \in
    {[score_pct       |-> score_amount_diff_pct(v[1], v[2]),
      amount_diff     |-> d,
      amount_diff_pct |-> amount_diff_pct_of(d, v[1])] :
     v \in {<<amount_float(expected), amount_float(actual)>>},
     d \in {float_sub(amount_float(actual), amount_float(expected))}} : TRUE

\* the same over the amounts of the input domain, evaluated once
amounts_memo ==
  {<<e, a, amounts_of(e, a)>> : e \in ExpectedAmounts \ {0}, a \in StatementAmounts}

amounts_at(expected, actual) ==
  (CHOOSE t \in amounts_memo : t[1] = expected /\ t[2] = actual)[3]

\* line 300: amount_diff_pct <= amount_tolerance_pct
within_amount_tolerance(pct) == ~float_less(float_of_int(amount_tolerance_pct), pct)

\* the test of line 300 over the amounts of the input domain, evaluated once
within_amount_tolerance_memo ==
  {<<t[1], t[2], within_amount_tolerance(t[3].score_pct)>> : t \in amounts_memo}

\* the score of one (expected row, statement row) pair, lines 282-302
pair_score(exp_row, carr_row) ==
  (IF <<exp_row.policy_number, carr_row.policy_number, TRUE>> \in policy_number_equal_memo
     THEN 50 * match_tolerance_days ELSE 0)
  + (IF <<exp_row.client_name, carr_row.client_name, TRUE>> \in fuzzy_match_name_memo
     THEN 30 * match_tolerance_days ELSE 0)
  + (LET date_diff == Abs(exp_row.effective_date - carr_row.effective_date)
     IN  IF date_diff <= match_tolerance_days
           THEN 15 * (match_tolerance_days - date_diff) ELSE 0)
  + (IF <<exp_row.expected_commission, carr_row.commission_amount, TRUE>>
            \in within_amount_tolerance_memo
     THEN 5 * match_tolerance_days ELSE 0)

\* the inner loop of lines 274-308 with the skip of lines 275-276 left out
RECURSIVE scan_statement_reusing(_, _, _, _, _)
scan_statement_reusing(exp_row, statement, claimed, carr_idx, best) ==
  IF carr_idx > Len(statement) THEN best
  ELSE IF exp_row.expected_commission = 0
    THEN [best EXCEPT !.raised = TRUE]
  ELSE LET score == pair_score(exp_row, statement[carr_idx])
       IN  scan_statement_reusing(exp_row, statement, claimed, carr_idx + 1,
             IF score > best.best_match_score
               THEN [best EXCEPT !.best_match_score = score,
                                 !.best_match_idx = carr_idx]
               ELSE best)

\* the inner loop of lines 274-308 where a score equal to the best so far
\* replaces it as well
RECURSIVE scan_statement_taking_last(_, _, _, _, _)
scan_statement_taking_last(exp_row, statement, claimed, carr_idx, best) ==
  IF carr_idx > Len(statement) THEN best
  ELSE IF carr_idx \in claimed
    THEN scan_statement_taking_last(exp_row, statement, claimed, carr_idx + 1, best)
  ELSE IF exp_row.expected_commission = 0
    THEN [best EXCEPT !.raised = TRUE]
  ELSE LET score == pair_score(exp_row, statement[carr_idx])
       IN  scan_statement_taking_last(exp_row, statement, claimed, carr_idx + 1,
             IF score >= best.best_match_score
               THEN [best EXCEPT !.best_match_score = score,
                                 !.best_match_idx = carr_idx]
               ELSE best)

\* the inner loop over the statement rows, lines 274-308: rows already
\* claimed are skipped, a strictly higher score replaces the best so far;
\* dividing by an expected commission of 0 raises ZeroDivisionError
RECURSIVE scan_statement(_, _, _, _, _)
scan_statement(exp_row, statement, claimed, carr_idx, best) ==
  IF carr_idx > Len(statement) THEN best
  ELSE IF carr_idx \in claimed
    THEN scan_statement(exp_row, statement, claimed, carr_idx + 1, best)
  ELSE IF exp_row.expected_commission = 0
    THEN [best EXCEPT !.raised = TRUE]
  ELSE LET score == pair_score(exp_row, statement[carr_idx])
       IN  scan_statement(exp_row, statement, claimed, carr_idx + 1,
             IF score > best.best_match_score
               THEN [best EXCEPT !.best_match_score = score,
                                 !.best_match_idx = carr_idx]
               ELSE best)

best_match_of(exp_row, statement, claimed) ==
  scan_statement(exp_row, statement, claimed, 1,
                 [best_match_score |-> 0, best_match_idx |-> None, raised |-> FALSE])

\* the threshold of line 311, on the scaled score
accept_score(best_match_score) == best_match_score >= 50 * match_tolerance_days

\* the record of an accepted pairing, lines 313-326
match_record(exp_row, best_match, best_match_score) ==
  [policy_number   |-> exp_row.policy_number,
   client_name     |-> exp_row.client_name,
   expected_amount |-> exp_row.expected_commission,
   actual_amount   |-> best_match.commission_amount,
   difference      |->
     amounts_at(exp_row.expected_commission, best_match.commission_amount).amount_diff,
   difference_pct  |->
     amounts_at(exp_row.expected_commission, best_match.commission_amount).amount_diff_pct,
   effective_date  |-> exp_row.effective_date,
   match_score     |-> best_match_score]

\* line 328: amount_diff_pct > amount_tolerance_pct
is_discrepancy_memo ==
  {<<t[3].amount_diff_pct,
     float_less(float_of_int(amount_tolerance_pct), t[3].amount_diff_pct)>> :
     t \in amounts_memo}

is_discrepancy(rec) == <<rec.difference_pct, TRUE>> \in is_discrepancy_memo

missing_record(exp_row) ==
  [policy_number   |-> exp_row.policy_number,
   client_name     |-> exp_row.client_name,
   expected_amount |-> exp_row.expected_commission,
   effective_date  |-> exp_row.effective_date]

unexpected_record(carr_row) ==
  [policy_number  |-> carr_row.policy_number,
   client_name    |-> carr_row.client_name,
   actual_amount  |-> carr_row.commission_amount,
   effective_date |-> carr_row.effective_date]

RECURSIVE SumOf(_, _)
SumOf(seq, field) ==
  IF seq = <<>> THEN 0 ELSE Head(seq)[field] + SumOf(Tail(seq), field)

\* an entry of the filing history: the list a record was appended to and the
\* index of the expected row and of the statement row it stands for (0: none)
filing(list, e, c) == [list |-> list, exp_idx |-> e, carr_idx |-> c]

is_pairing(f) == f.list \in {"matched", "amount_discrepancies"}

\* the sweep of lines 348-356 with the test of line 349 left out
unclaimed_indices_unfiltered(statement, claimed, carr_idx) ==
  [k \in 1..(Len(statement) - carr_idx + 1) |-> carr_idx + k - 1]

\* the statement rows never claimed, in statement order, lines 348-349
RECURSIVE unclaimed_indices(_, _, _)
unclaimed_indices(statement, claimed, carr_idx) ==
  IF carr_idx > Len(statement) THEN <<>>
  ELSE (IF carr_idx \in claimed THEN <<>> ELSE <<carr_idx>>)
       \o unclaimed_indices(statement, claimed, carr_idx + 1)

NoSummary == [total_expected |-> 0]

ReconIdle ==
  /\ expected_commissions = <<>>
  /\ carrier_statement = <<>>
  /\ pc = "idle"
  /\ exp_idx = 1
  /\ matched = <<>>
  /\ missing_from_statement = <<>>
  /\ unexpected_in_statement = <<>>
  /\ amount_discrepancies = <<>>
  /\ matched_expected_indices = {}
  /\ matched_carrier_indices = {}
  /\ filed = <<>>
  /\ summary = NoSummary

ReconStart ==
  /\ expected_commissions \in SeqsUpTo(ExpectedRows, MaxExpected)
  /\ carrier_statement \in SeqsUpTo(StatementRows, MaxStatement)
  /\ pc = "match"
  /\ exp_idx = 1
  /\ matched = <<>>
  /\ missing_from_statement = <<>>
  /\ unexpected_in_statement = <<>>
  /\ amount_discrepancies = <<>>
  /\ matched_expected_indices = {}
  /\ matched_carrier_indices = {}
  /\ filed = <<>>
  /\ summary = NoSummary

\* lines 313-341: the accepted pairing is filed as a discrepancy or as matched
FilePairing(best, rec) ==
  /\ IF is_discrepancy(rec)
       THEN /\ amount_discrepancies' = Append(amount_discrepancies, rec)
            /\ filed' = Append(filed,
                 filing("amount_discrepancies", exp_idx, best.best_match_idx))
            /\ UNCHANGED matched
       ELSE /\ matched' = Append(matched, rec)
            /\ filed' = Append(filed, filing("matched", exp_idx, best.best_match_idx))
            /\ UNCHANGED amount_discrepancies
  /\ matched_expected_indices' = matched_expected_indices \cup {exp_idx}
  /\ matched_carrier_indices' = matched_carrier_indices \cup {best.best_match_idx}
  /\ exp_idx' = exp_idx + 1
  /\ UNCHANGED <<pc, missing_from_statement>>

\* lines 310-345: what is done with the best match of an expected row
FileBestMatch(exp_row, best) ==
  IF best.raised
    THEN /\ pc' = "raised"
         /\ UNCHANGED <<exp_idx, matched, amount_discrepancies,
                        missing_from_statement, matched_expected_indices,
                        matched_carrier_indices, filed>>
  ELSE IF accept_score(best.best_match_score)
    THEN FilePairing(best, match_record(exp_row, carrier_statement[best.best_match_idx],
                                        best.best_match_score))
  ELSE /\ missing_from_statement' =
            Append(missing_from_statement, missing_record(exp_row))
       /\ filed' = Append(filed, filing("missing_from_statement", exp_idx, 0))
       /\ exp_idx' = exp_idx + 1
       /\ UNCHANGED <<pc, matched, amount_discrepancies, matched_expected_indices,
                      matched_carrier_indices>>

\* one iteration of the loop over the expected rows, lines 273-345
MatchExpected ==
  /\ pc = "match"
  /\ exp_idx <= Len(expected_commissions)
  /\ FileBestMatch(expected_commissions[exp_idx],
                   best_match_of(expected_commissions[exp_idx], carrier_statement,
                                 matched_carrier_indices))
  /\ UNCHANGED <<expected_commissions, carrier_statement, unexpected_in_statement, summary>>
  /\ UNCHANGED notRecon

\* after the loop: the unclaimed statement rows and the summary, lines 347-376
\* a variant of summary_of that counts the pairings with an amount
\* discrepancy as matched
summary_counting_discrepancies(expected, statement, lists) ==
  [total_expected        |-> Len(expected),
   total_in_statement    |-> Len(statement),
   matched_count         |-> Len(lists.matched) + Len(lists.amount_discrepancies),
   missing_count         |-> Len(lists.missing_from_statement),
   unexpected_count      |-> Len(lists.unexpected_in_statement),
   discrepancy_count     |-> Len(lists.amount_discrepancies),
   match_rate            |-> IF Len(expected) > 0
                               THEN <<(Len(lists.matched) + Len(lists.amount_discrepancies)) * 100,
                                      Len(expected)>>
                               ELSE <<0, 1>>,
   total_expected_amount |-> IF Len(expected) > 0
                               THEN SumOf(expected, "expected_commission") ELSE 0,
   total_actual_amount   |-> IF Len(statement) > 0
                               THEN SumOf(statement, "commission_amount") ELSE 0,
   total_difference      |-> (IF Len(statement) > 0
                                THEN SumOf(statement, "commission_amount") ELSE 0)
                             - (IF Len(expected) > 0
                                  THEN SumOf(expected, "expected_commission") ELSE 0)]

\* lines 362-375: the summary; match_rate is the fraction <<numerator,
\* denominator>> of len(matched) / len(expected_commissions) * 100, the
\* amounts are sums of hundredths
summary_of(expected, statement, lists) ==
  [total_expected        |-> Len(expected),
   total_in_statement    |-> Len(statement),
   matched_count         |-> Len(lists.matched),
   missing_count         |-> Len(lists.missing_from_statement),
   unexpected_count      |-> Len(lists.unexpected_in_statement),
   discrepancy_count     |-> Len(lists.amount_discrepancies),
   match_rate            |-> IF Len(expected) > 0
                               THEN <<Len(lists.matched) * 100, Len(expected)>>
                               ELSE <<0, 1>>,
   total_expected_amount |-> IF Len(expected) > 0
                               THEN SumOf(expected, "expected_commission") ELSE 0,
   total_actual_amount   |-> IF Len(statement) > 0
                               THEN SumOf(statement, "commission_amount") ELSE 0,
   total_difference      |-> (IF Len(statement) > 0
                                THEN SumOf(statement, "commission_amount") ELSE 0)
                             - (IF Len(expected) > 0
                                  THEN SumOf(expected, "expected_commission") ELSE 0)]

FinishMatch ==
  /\ pc = "match"
  /\ exp_idx > Len(expected_commissions)
  /\ LET rest == unclaimed_indices(carrier_statement, matched_carrier_indices, 1)
     IN  /\ unexpected_in_statement' =
               [k \in 1..Len(rest) |-> unexpected_record(carrier_statement[rest[k]])]
         /\ filed' = filed \o
               [k \in 1..Len(rest) |-> filing("unexpected_in_statement", 0, rest[k])]
  /\ summary' = summary_of(expected_commissions, carrier_statement,
                            [matched |-> matched,
                             missing_from_statement |-> missing_from_statement,
                             unexpected_in_statement |-> unexpected_in_statement',
                             amount_discrepancies |-> amount_discrepancies])
  /\ pc' = "done"
  /\ UNCHANGED <<expected_commissions, carrier_statement, exp_idx, matched,
                 amount_discrepancies, missing_from_statement,
                 matched_expected_indices, matched_carrier_indices>>
  /\ UNCHANGED notRecon

(***************************************************************************)
(* agency_statement_matcher.find_matching_policy                           *)
(***************************************************************************)
MaxPolicies == 2

Agencies == {"agency-1", "agency-2"}

\* (agency, agent) of a policy row: the agents of an agency own its policies,
\* and a policy row may have no agent (agent_id null)
PolicyOwners ==
  {<<"agency-1", "agent-1">>, <<"agency-1", "agent-2">>, <<"agency-1", None>>,
   <<"agency-2", "agent-3">>}

MatcherPolicyCustomers ==
  {"mary johnson ", "Mary Johnsen", "Mary Johns", "Mary Jones", "Maria Johnsen",
   "John Johnstone", "Mary Doe"}
MatcherStmtCustomers == {"", "Mary Johnson"}

\* the customer names of the rows of an uploaded statement
StatementCustomers == {"Mary Johnson", "Tom Wilson"}

PolicyRows ==
  {[policy_number |-> n, customer |-> c, agency_id |-> o[1], agent_id |-> o[2]] :
     n \in {"POL-001", "POL-002"}, c \in MatcherPolicyCustomers, o \in PolicyOwners}

StmtTransactions == [policy_number : {"", "POL-001"}, customer : MatcherStmtCustomers]

\* fuzzy_match_customer over the names of the input domain, evaluated once
fuzzy_match_customer_memo ==
  {<<p[1], p[2], fuzzy_match_customer(Chars(p[1]), Chars(p[2]))>> :
      p \in (MatcherStmtCustomers \cup StatementCustomers) \X MatcherPolicyCustomers}

customer_score_of(stmt_customer, db_customer) ==
  (CHOOSE t \in fuzzy_match_customer_memo :
      t[1] = stmt_customer /\ t[2] = db_customer)[3]

\* the value None of Optional[Dict]
NoMatch == [match_type |-> "None"]

\* a variant of match_of that leaves the owner of the policy out
match_of_without_agent(policy, confidence, match_type) ==
  [policy |-> policy, confidence |-> confidence, match_type |-> match_type,
   matched_agent_id |-> None]

\* the dict of lines 158-163, 168-173 and 186-191
match_of(policy, confidence, match_type) ==
  [policy |-> policy, confidence |-> confidence, match_type |-> match_type,
   matched_agent_id |-> policy.agent_id]

\* variants of the tests below: the agency left unchecked, the tier
\* thresholds moved
any_agency(policy, agency) == TRUE
is_high_confidence_above_90(customer_score) == customer_score > 90
is_customer_match_above_80(customer_score) == customer_score > 80
is_accepted_from_60(best_score) == best_score >= 60

\* lines 153 and 178: policy.get('agency_id') == agency_id
same_agency(policy, agency) == policy.agency_id = agency

\* line 157
is_high_confidence(customer_score) == customer_score > 80

\* line 183
is_customer_match(customer_score) == customer_score > 90

\* line 193
is_accepted(best_score) == best_score > 60

\* lines 151-173: the scan for the transaction's policy number; st.returned
\* is set by the return of line 158
RECURSIVE policy_number_scan(_, _, _, _, _)
policy_number_scan(trans, policies, agency, i, st) ==
  IF i > Len(policies) THEN st
  ELSE LET policy == policies[i]
       IN  IF policy.policy_number = trans.policy_number /\ same_agency(policy, agency)
             THEN LET customer_score == customer_score_of(trans.customer, policy.customer)
                  IN  IF is_high_confidence(customer_score)
                        THEN [st EXCEPT !.returned = TRUE,
                               !.best_match = match_of(policy, 95, "Exact Policy + Customer")]
                      ELSE IF customer_score > st.best_score
                        THEN policy_number_scan(trans, policies, agency, i + 1,
                               [st EXCEPT !.best_score = customer_score,
                                 !.best_match = match_of(policy, 75, "Policy Match")])
                      ELSE policy_number_scan(trans, policies, agency, i + 1, st)
           ELSE policy_number_scan(trans, policies, agency, i + 1, st)

\* lines 177-191: the scan for a customer name scoring above 90
RECURSIVE customer_scan(_, _, _, _, _)
customer_scan(trans, policies, agency, i, st) ==
  IF i > Len(policies) THEN st
  ELSE LET policy == policies[i]
       IN  IF ~same_agency(policy, agency)
             THEN customer_scan(trans, policies, agency, i + 1, st)
           ELSE LET customer_score == customer_score_of(trans.customer, policy.customer)
                IN  IF is_customer_match(customer_score) /\ customer_score > st.best_score
                      THEN customer_scan(trans, policies, agency, i + 1,
                             [st EXCEPT !.best_score = customer_score,
                               !.best_match =
                                  match_of(policy, customer_score, "Customer Match")])
                    ELSE customer_scan(trans, policies, agency, i + 1, st)

\* line 193
final_answer(st) == IF is_accepted(st.best_score) THEN st.best_match ELSE NoMatch

find_matching_policy(trans, policies, agency) ==
  LET st0 == [best_match |-> NoMatch, best_score |-> 0, returned |-> FALSE]
      st1 == IF trans.policy_number # ""
               THEN policy_number_scan(trans, policies, agency, 1, st0) ELSE st0
  IN  IF st1.returned THEN st1.best_match
      ELSE LET st2 == IF trans.customer # "" /\ st1.best_match = NoMatch
                        THEN customer_scan(trans, policies, agency, 1, st1) ELSE st1
           IN  final_answer(st2)

(***************************************************************************)
(* agent_assignment_logic: the automatic assignment strategies             *)
(***************************************************************************)
\* a.lower().strip() == b.lower().strip()
customer_equal(a, b) == str_strip(str_lower(a)) = str_strip(str_lower(b))

customer_equal_memo ==
  {<<p[1], p[2], customer_equal(Chars(p[1]), Chars(p[2]))>> :
      p \in (MatcherStmtCustomers \cup StatementCustomers)
              \X (MatcherPolicyCustomers \cup {""})}

\* lines 33-36: the first policy of the agency with the policy number, as an
\* index (0: none)
RECURSIVE first_by_number(_, _, _, _)
first_by_number(policies, policy_number, agency, i) ==
  IF i > Len(policies) THEN 0
  ELSE IF policies[i].policy_number = policy_number /\ policies[i].agency_id = agency
    THEN i
  ELSE first_by_number(policies, policy_number, agency, i + 1)

\* lines 41-45: the first policy of the agency with the customer name, as an
\* index (0: none)
RECURSIVE first_by_customer(_, _, _, _)
first_by_customer(policies, customer_name, agency, i) ==
  IF i > Len(policies) THEN 0
  ELSE IF /\ <<customer_name, policies[i].customer, TRUE>> \in customer_equal_memo
          /\ policies[i].agency_id = agency
    THEN i
  ELSE first_by_customer(policies, customer_name, agency, i + 1)

auto_assign_by_policy_ownership(statement_transaction, policies, agency) ==
  LET policy_number == statement_transaction.policy_number
      customer_name == statement_transaction.customer
      n == IF policy_number # "" THEN first_by_number(policies, policy_number, agency, 1)
           ELSE 0
      c == IF customer_name # "" THEN first_by_customer(policies, customer_name, agency, 1)
           ELSE 0
  IN  IF policy_number = "" /\ customer_name = "" THEN None
      ELSE IF n # 0 THEN policies[n].agent_id
      ELSE IF c # 0 THEN policies[c].agent_id
      ELSE None

\* lines 84-87: agent_counts, a dict in insertion order, as <<agent_id, count>> pairs
RECURSIVE count_agents(_, _)
count_agents(customer_policies, agent_counts) ==
  IF customer_policies = <<>> THEN agent_counts
  ELSE LET agent == Head(customer_policies).agent_id
           at    == {i \in 1..Len(agent_counts) : agent_counts[i][1] = agent}
       IN  count_agents(Tail(customer_policies),
             IF at = {} THEN Append(agent_counts, <<agent, 1>>)
             ELSE [agent_counts EXCEPT ![SetMin(at)] = <<agent, @[2] + 1>>])

\* a variant of max_by_count that returns the first key, whatever its count
first_counted(agent_counts) ==
  agent_counts[1][1]

\* max(agent_counts, key=agent_counts.get): the first key with the largest count
max_by_count(agent_counts) ==
  LET top == SetMax({agent_counts[i][2] : i \in 1..Len(agent_counts)})
  IN  agent_counts[SetMin({i \in 1..Len(agent_counts) : agent_counts[i][2] = top})][1]

auto_assign_by_customer_history(customer_name, policies, agency) ==
  LET of_customer(p) ==
        /\ <<customer_name, p.customer, TRUE>> \in customer_equal_memo
        /\ p.agency_id = agency
        /\ p.agent_id # None
      customer_policies == SelectSeq(policies, of_customer)
  IN  IF customer_name = "" THEN None
      ELSE IF customer_policies = <<>> THEN None
      ELSE max_by_count(count_agents(customer_policies, <<>>))

MatcherIdle ==
  /\ existing_policies = <<>>
  /\ stmt_trans = [policy_number |-> "", customer |-> ""]
  /\ agency_id = "agency-1"
  /\ call = "idle"
  /\ match_result = NoMatch
  /\ agent_result = None

MatcherStart ==
  /\ existing_policies \in SeqsUpTo(PolicyRows, MaxPolicies)
  /\ stmt_trans \in StmtTransactions
  /\ agency_id = "agency-1"
  /\ call = "none"
  /\ match_result = NoMatch
  /\ agent_result = None

\* the calls of the assignment functions on the history of one customer: up
\* to MaxHistoryPolicies policy rows, of either agency, with or without agent
MaxHistoryPolicies == 3

HistoryPolicyRows ==
  {[policy_number |-> "POL-002", customer |-> c, agency_id |-> o[1], agent_id |-> o[2]] :
     c \in {"mary johnson ", "Mary Doe", ""}, o \in PolicyOwners}

HistoryStart ==
  /\ existing_policies \in SeqsUpTo(HistoryPolicyRows, MaxHistoryPolicies)
  /\ stmt_trans \in StmtTransactions
  /\ agency_id = "agency-1"
  /\ call = "none"
  /\ match_result = NoMatch
  /\ agent_result = None

FindMatchingPolicy ==
  /\ call = "none"
  /\ call' = "find_matching_policy"
  /\ match_result' = find_matching_policy(stmt_trans, existing_policies, agency_id)
  /\ UNCHANGED <<existing_policies, stmt_trans, agency_id, agent_result>>
  /\ UNCHANGED notMatcher

AutoAssignByPolicyOwnership ==
  /\ call = "none"
  /\ call' = "auto_assign_by_policy_ownership"
  /\ agent_result' =
       auto_assign_by_policy_ownership(stmt_trans, existing_policies, agency_id)
  /\ UNCHANGED <<existing_policies, stmt_trans, agency_id, match_result>>
  /\ UNCHANGED notMatcher

AutoAssignByCustomerHistory ==
  /\ call = "none"
  /\ call' = "auto_assign_by_customer_history"
  /\ agent_result' =
       auto_assign_by_customer_history(stmt_trans.customer, existing_policies, agency_id)
  /\ UNCHANGED <<existing_policies, stmt_trans, agency_id, match_result>>
  /\ UNCHANGED notMatcher

(***************************************************************************)
(* pages/agency_reconciliation.py: assignment, mapping, review and import  *)
(* of one uploaded statement, and team_management.deactivate_agent.        *)
(* A customer name of the input domain contains none of the words that     *)
(* mark a totals row.                                                      *)
(***************************************************************************)
MaxDbPolicies    == 2
MaxUploadedRows  == 2
MaxInsertCalls   == 1

AgentRows ==
  <<[id |-> "agent-1", agency_id |-> "agency-1", is_active |-> TRUE],
    [id |-> "agent-2", agency_id |-> "agency-1", is_active |-> TRUE],
    [id |-> "agent-3", agency_id |-> "agency-2", is_active |-> TRUE]>>

AgencyPolicyRows ==
  {[policy_number |-> "POL-001", customer |-> c, agency_id |-> o[1], agent_id |-> o[2]] :
     c \in {"mary johnson ", "Mary Doe"},
     o \in {<<"agency-1", "agent-1">>, <<"agency-1", None>>, <<"agency-2", "agent-3">>}}

UploadedRows ==
  {[policy_number |-> "POL-001", customer |-> "Mary Johnson", amount |-> 100],
   [policy_number |-> "",        customer |-> "Tom Wilson",   amount |-> 250]}

\* the cells a customer column can hold: a name, nothing, blanks, NaN, the
\* label of a totals row
StatementCustomerCells == StatementCustomers \cup {"", " ", None, "Grand Total"}

\* statement rows as uploaded, before the filter
RawStatementRows ==
  [policy_number : {"POL-001", ""}, customer : StatementCustomerCells, amount : {100}]

\* column_mapping['Customer'] as show_mapping_step stores it (a required field)
MappedCustomerColumn == "Customer"

\* the rows of table policies as stored: each has its own Transaction ID
with_transaction_ids(rows) ==
  [k \in 1..Len(rows) |->
     [transaction_id |-> k,
      policy_number  |-> rows[k].policy_number,
      customer       |-> rows[k].customer,
      agency_id      |-> rows[k].agency_id,
      agent_id       |-> rows[k].agent_id]]

AssignmentModes == {"assign_all", "auto_assign", "manual"}

\* agency_reconciliation_helpers.load_agency_policies_for_matching
load_agency_policies_for_matching(table, agency) ==
  LET of_agency(p) == p.agency_id = agency
  IN  SelectSeq(table, of_agency)

\* show_assignment_step, lines 187-191: the active agents of the agency
active_agents_of(table, agency) ==
  LET wanted(a) == a.agency_id = agency /\ a.is_active
      rows == SelectSeq(table, wanted)
  IN  [k \in 1..Len(rows) |-> rows[k].id]

\* process_statement_with_agent_attribution, lines 252-263
matched_item(trans, result) ==
  [policy_number     |-> trans.policy_number,
   customer          |-> trans.customer,
   amount            |-> trans.amount,
   match             |-> result.policy,
   confidence        |-> result.confidence,
   match_type        |-> result.match_type,
   matched_agent_id  |-> result.matched_agent_id,
   assigned_agent_id |-> result.matched_agent_id,
   assignment_method |-> "matched_policy"]

\* a variant of unmatched_item that reads the agent picked last in the first
\* selector of the review step
unmatched_item_keeping_selection(trans, existing, agency, mode, selected) ==
  [policy_number     |-> trans.policy_number,
   customer          |-> trans.customer,
   amount            |-> trans.amount,
   assigned_agent_id |-> agent_assign[1],
   assignment_method |-> "manual",
   reassigned        |-> FALSE]

\* process_statement_with_agent_attribution, lines 265-294
unmatched_item(trans, existing, agency, mode, selected) ==
  LET agent == auto_assign_by_customer_history(trans.customer, existing, agency)
      assigned ==
        IF mode = "assign_all" /\ selected # None THEN <<selected, "bulk_assigned">>
        ELSE IF mode = "auto_assign"
          THEN (IF agent # None THEN <<agent, "auto_assigned">>
                ELSE <<None, "needs_manual">>)
        ELSE <<None, "manual">>
  IN  [policy_number     |-> trans.policy_number,
       customer          |-> trans.customer,
       amount            |-> trans.amount,
       assigned_agent_id |-> assigned[1],
       assignment_method |-> assigned[2],
       reassigned        |-> FALSE]      \* the key is absent until it is set

\* a variant of attribute_row that gives the selected agent to the matched
\* transactions as well
attribute_row_assigning_all(lists, trans, result, existing, agency, mode, selected) ==
  IF result # NoMatch
    THEN [lists EXCEPT !.matched =
            Append(@, [matched_item(trans, result) EXCEPT !.assigned_agent_id =
                         IF mode = "assign_all" /\ selected # None THEN selected ELSE @])]
    ELSE [lists EXCEPT !.unmatched =
            Append(@, unmatched_item(trans, existing, agency, mode, selected))]

\* a variant of attribute_row that keeps no record of a transaction without
\* match and without agent
attribute_row_dropping_unassigned(lists, trans, result, existing, agency, mode, selected) ==
  IF result # NoMatch
    THEN [lists EXCEPT !.matched = Append(@, matched_item(trans, result))]
  ELSE IF unmatched_item(trans, existing, agency, mode, selected).assigned_agent_id = None
    THEN lists
  ELSE [lists EXCEPT !.unmatched =
          Append(@, unmatched_item(trans, existing, agency, mode, selected))]

\* lines 250-294: one statement row goes to the matched or the unmatched list
attribute_row(lists, trans, result, existing, agency, mode, selected) ==
  IF result # NoMatch
    THEN [lists EXCEPT !.matched = Append(@, matched_item(trans, result))]
    ELSE [lists EXCEPT !.unmatched =
            Append(@, unmatched_item(trans, existing, agency, mode, selected))]

\* line 230: the alternatives of the pattern that marks a totals row
TotalsPattern == {"total", "totals", "subtotal", "sub-total", "grand total", "sum"}

\* lines 229-234: the masks on the customer column; a cell is a string or
\* None (NaN), and astype(str) turns NaN into 'nan'
exclude_mask(row) ==
  LET customer    == IF row.customer = None THEN Chars("nan") ELSE Chars(row.customer)
      totals_mask == \E w \in TotalsPattern : str_contains(str_lower(customer), Chars(w))
      empty_mask  == str_strip(customer) = <<>>
      nan_mask    == row.customer = None
  IN  totals_mask \/ empty_mask \/ nan_mask

exclude_mask_memo ==
  {<<c, exclude_mask([customer |-> c])>> : c \in StatementCustomerCells}

\* lines 226-238: the rows that stay; without a customer column all stay
df_filtered(statement_df, customer_col) ==
  LET kept(row) == <<row.customer, FALSE>> \in exclude_mask_memo
  IN  IF customer_col # None /\ customer_col # ""
        THEN SelectSeq(statement_df, kept)
        ELSE statement_df

\* parse_statement_row: the customer is read through the mapping, '' when
\* the column is not mapped or the cell is NaN or empty
parse_statement_row(row, customer_col) ==
  [policy_number |-> IF row.policy_number = None THEN "" ELSE row.policy_number,
   customer      |-> IF customer_col = None \/ customer_col = "" \/ row.customer = None
                       THEN "" ELSE row.customer,
   amount        |-> row.amount]

\* line 246
no_customer_or_policy(trans) == trans.customer = "" /\ trans.policy_number = ""

\* the loop of lines 241-294 over the filtered rows
RECURSIVE attribute_rows(_, _, _, _, _, _, _)
attribute_rows(rows, existing, agency, mode, selected, i, lists) ==
  IF i > Len(rows) THEN lists
  ELSE attribute_rows(rows, existing, agency, mode, selected, i + 1,
         IF no_customer_or_policy(rows[i]) THEN lists
         ELSE attribute_row(lists, rows[i],
                            find_matching_policy(rows[i], existing, agency),
                            existing, agency, mode, selected))

\* the rows of df_filtered, parsed
parsed_rows(statement_df, customer_col) ==
  LET rows == df_filtered(statement_df, customer_col)
  IN  [k \in 1..Len(rows) |-> parse_statement_row(rows[k], customer_col)]

process_statement_with_agent_attribution(statement_df, customer_col, table, agency, mode, selected) ==
  attribute_rows(parsed_rows(statement_df, customer_col),
                 load_agency_policies_for_matching(table, agency),
                 agency, mode, selected, 1, [matched |-> <<>>, unmatched |-> <<>>])

\* show_review_step, line 430
unassigned_count(unmatched) ==
  Cardinality({k \in 1..Len(unmatched) : unmatched[k].assigned_agent_id = None})

in_list(x, list) == \E k \in 1..Len(list) : list[k] = x

\* show_unmatched_tab, lines 582-588: the value of selectbox idx; a widget that
\* has no state yet shows the current agent if it is offered, else the first
selectbox_value(widgets, idx, current, list) ==
  IF widgets[idx] # None THEN widgets[idx]
  ELSE IF current # None /\ in_list(current, list) THEN current
  ELSE list[1]

\* show_unmatched_tab, lines 537-593: what one run does to the unmatched list
show_unmatched_tab(unmatched, widgets, list) ==
  IF unmatched = <<>> \/ list = <<>> THEN unmatched
  ELSE [k \in 1..Len(unmatched) |->
          LET selected_agent ==
                selectbox_value(widgets, k, unmatched[k].assigned_agent_id, list)
          IN  IF selected_agent # unmatched[k].assigned_agent_id
                THEN [unmatched[k] EXCEPT !.assigned_agent_id = selected_agent,
                                          !.assignment_method = "manual_review"]
                ELSE unmatched[k]]

\* the widget state after that run
widgets_after(unmatched, widgets, list) ==
  IF unmatched = <<>> \/ list = <<>> THEN widgets
  ELSE [k \in 1..MaxUploadedRows |->
          IF k <= Len(unmatched)
            THEN selectbox_value(widgets, k, unmatched[k].assigned_agent_id, list)
            ELSE widgets[k]]

\* a variant of validate_agent_assignment that does not look at is_active
validate_agent_assignment_of_any(agent, agency, valid_agents) ==
  LET found == {k \in 1..Len(valid_agents) : valid_agents[k].id = agent}
  IN  IF agent = None \/ agent = "" THEN <<FALSE, "No agent ID provided">>
      ELSE IF found = {} THEN <<FALSE, "Agent ID not found in agency">>
      ELSE IF valid_agents[SetMin(found)].agency_id # agency
        THEN <<FALSE, "Agent does not belong to this agency">>
      ELSE <<TRUE, "">>

\* agent_assignment_logic.validate_agent_assignment: <<is_valid, error_message>>
validate_agent_assignment(agent, agency, valid_agents) ==
  LET found == {k \in 1..Len(valid_agents) : valid_agents[k].id = agent}
  IN  IF agent = None \/ agent = "" THEN <<FALSE, "No agent ID provided">>
      ELSE IF found = {} THEN <<FALSE, "Agent ID not found in agency">>
      ELSE IF valid_agents[SetMin(found)].agency_id # agency
        THEN <<FALSE, "Agent does not belong to this agency">>
      ELSE IF ~valid_agents[SetMin(found)].is_active
        THEN <<FALSE, "Agent is inactive">>
      ELSE <<TRUE, "">>

\* str.__hash__ % 10000 of a policy number (create_new_transaction line 366):
\* the empty string hashes to 0, the hash of another string depends on the
\* salt of the interpreter
PolicyNumberHashes == {0, 4471}

hash_mod(policy_number, salted) == IF policy_number = "" THEN 0 ELSE salted

\* a variant of create_stmt_entry that records the statement amount as the
\* expected commission
create_stmt_entry_as_expected(original_transaction, stmt_amount, reconciliation_id, agent, agency, now) ==
  [kind             |-> "-STMT-",
   transaction_id   |-> [original |-> original_transaction.transaction_id,
                         infix |-> "-STMT-", timestamp |-> now],
   customer         |-> original_transaction.customer,
   policy_number    |-> original_transaction.policy_number,
   agent_paid_amount |-> 0,
   total_agent_comm |-> stmt_amount,
   reconciliation_id |-> reconciliation_id,
   agent_id         |-> agent,
   agency_id        |-> agency]

\* agency_statement_matcher.create_stmt_entry; now is the second datetime.now()
\* returns on line 322
create_stmt_entry(original_transaction, stmt_amount, reconciliation_id, agent, agency, now) ==
  [kind             |-> "-STMT-",
   transaction_id   |-> [original |-> original_transaction.transaction_id,
                         infix |-> "-STMT-", timestamp |-> now],
   customer         |-> original_transaction.customer,
   policy_number    |-> original_transaction.policy_number,
   agent_paid_amount |-> stmt_amount,
   total_agent_comm |-> 0,
   reconciliation_id |-> reconciliation_id,
   agent_id         |-> agent,
   agency_id        |-> agency]

\* agency_statement_matcher.create_new_transaction; the record has no key
\* reconciliation_id
create_new_transaction(trans, agent, agency, now, salted) ==
  [kind             |-> "NEW",
   transaction_id   |-> [prefix |-> "NEW", timestamp |-> now,
                         hash |-> hash_mod(trans.policy_number, salted)],
   customer         |-> trans.customer,
   policy_number    |-> trans.policy_number,
   agent_paid_amount |-> 0,
   total_agent_comm |-> trans.amount,
   reconciliation_id |-> None,
   agent_id         |-> agent,
   agency_id        |-> agency]

\* import_agency_transactions line 619: a fresh identifier per call
UUIDs == <<"uuid-1", "uuid-2", "uuid-3", "uuid-4">>

uuid4(calls) == UUIDs[Len(calls) + 1]

\* the seconds datetime.now() shows while the n records of a call are built:
\* the clock ticks once after the first `tick` records, or (tick = n) not at all
seconds_of_call(calls, n, tick) ==
  [k \in 1..n |-> IF k <= tick THEN 2 * Len(calls) ELSE 2 * Len(calls) + 1]

\* import_agency_transactions, lines 615-655: the records to insert, or the
\* early return of line 644
transactions_to_insert(matched_list, unmatched_list, agency, batch_id, seconds, salted) ==
  LET stmt_entries ==
        [k \in 1..Len(matched_list) |->
           create_stmt_entry(matched_list[k].match, matched_list[k].amount,
                             batch_id, matched_list[k].matched_agent_id,
                             agency, seconds[k])]
      new_entries ==
        [k \in 1..Len(unmatched_list) |->
           create_new_transaction(unmatched_list[k],
                                  unmatched_list[k].assigned_agent_id, agency,
                                  seconds[Len(matched_list) + k], salted)]
  IN  IF unassigned_count(unmatched_list) > 0
        THEN [returned |-> TRUE, rows |-> <<>>]
        ELSE [returned |-> FALSE, rows |-> stmt_entries \o new_entries]

NoWidgets == [k \in 1..MaxUploadedRows |-> None]

AgencyIdle ==
  /\ agents = <<>>
  /\ policies_table = <<>>
  /\ uploaded_df = <<>>
  /\ recon_step = 0
  /\ assignment_mode = None
  /\ selected_agent_id = None
  /\ agents_list = <<>>
  /\ processed = FALSE
  /\ agency_matched_transactions = <<>>
  /\ agency_unmatched_transactions = <<>>
  /\ agent_assign = NoWidgets
  /\ import_offered = FALSE
  /\ insert_calls = <<>>
  /\ stored_rows = <<>>
  /\ import_result = None
  /\ policy_number_hash = PolicyNumberHashes
  /\ classification_runs = <<>>

\* the statement has been uploaded (step 1) and the page shows step 2
AgencyStart ==
  /\ agents = AgentRows
  /\ policies_table \in {with_transaction_ids(rows) :
                           rows \in SeqsUpTo(AgencyPolicyRows, MaxDbPolicies)}
  /\ uploaded_df \in SeqsUpTo(UploadedRows, MaxUploadedRows)
  /\ recon_step = 2
  /\ assignment_mode = None
  /\ selected_agent_id = None
  /\ agents_list = <<>>
  /\ processed = FALSE
  /\ agency_matched_transactions = <<>>
  /\ agency_unmatched_transactions = <<>>
  /\ agent_assign = NoWidgets
  /\ import_offered = FALSE
  /\ insert_calls = <<>>
  /\ stored_rows = <<>>
  /\ import_result = None
  /\ policy_number_hash = PolicyNumberHashes
  /\ classification_runs = <<>>

\* team_management.deactivate_agent, on an agent of the owner's agency
DeactivateAgent ==
  /\ recon_step \in 2..4
  /\ \E k \in 1..Len(agents) :
       /\ agents[k].agency_id = agency_id
       /\ agents[k].is_active
       /\ agents' = [agents EXCEPT ![k].is_active = FALSE]
  /\ UNCHANGED <<policies_table, policy_number_hash, classification_runs, uploaded_df, recon_step, assignment_mode, selected_agent_id,
                 agents_list, processed, agency_matched_transactions,
                 agency_unmatched_transactions, agent_assign, import_offered,
                 insert_calls, stored_rows, import_result>>
  /\ UNCHANGED notAgency

\* show_assignment_step with "Continue to Column Mapping" pressed
ShowAssignmentStep ==
  /\ recon_step = 2
  /\ LET active == active_agents_of(agents, agency_id)
     IN  /\ active # <<>>
         /\ \E mode \in AssignmentModes :
              /\ assignment_mode' = mode
              /\ IF mode = "assign_all"
                   THEN \E k \in 1..Len(active) : selected_agent_id' = active[k]
                   ELSE selected_agent_id' = None
         /\ agents_list' = active
  /\ recon_step' = 3
  /\ UNCHANGED <<agents, policies_table, policy_number_hash, classification_runs, uploaded_df, processed, agency_matched_transactions,
                 agency_unmatched_transactions, agent_assign, import_offered,
                 insert_calls, stored_rows, import_result>>
  /\ UNCHANGED notAgency

\* show_mapping_step with all required columns mapped and "Continue to Review" pressed
ShowMappingStep ==
  /\ recon_step = 3
  /\ recon_step' = 4
  /\ UNCHANGED <<agents, policies_table, policy_number_hash, classification_runs, uploaded_df, assignment_mode, selected_agent_id,
                 agents_list, processed, agency_matched_transactions,
                 agency_unmatched_transactions, agent_assign, import_offered,
                 insert_calls, stored_rows, import_result>>
  /\ UNCHANGED notAgency

\* show_review_step lines 416-446: the lists go to the session, the unassigned
\* are counted, then the tab of the unmatched transactions is drawn
ReviewLists(lists) ==
  /\ agency_matched_transactions' = lists.matched
  /\ agency_unmatched_transactions' =
       show_unmatched_tab(lists.unmatched, agent_assign, agents_list)
  /\ agent_assign' = widgets_after(lists.unmatched, agent_assign, agents_list)
  /\ import_offered' = (unassigned_count(lists.unmatched) = 0)

\* the history keeps the first MaxRuns - 1 results and the latest one
MaxRuns == 2

run_recorded(runs, lists) ==
  IF Len(runs) < MaxRuns THEN Append(runs, lists)
  ELSE [runs EXCEPT ![MaxRuns] = lists]

\* show_review_step lines 400-418: the statement is classified and the lists
\* are reviewed
ClassifyAndReview(lists) ==
  /\ ReviewLists(lists)
  /\ classification_runs' = run_recorded(classification_runs, lists)

\* one run of show_review_step with no button pressed, lines 384-453
ShowReviewStep ==
  /\ recon_step = 4
  /\ ~processed \/ ~import_offered
  /\ IF processed
       THEN /\ ReviewLists([matched |-> agency_matched_transactions,
                            unmatched |-> agency_unmatched_transactions])
            /\ UNCHANGED classification_runs
       ELSE ClassifyAndReview(process_statement_with_agent_attribution(
                                uploaded_df, MappedCustomerColumn, policies_table,
                                agency_id, assignment_mode, selected_agent_id))
  /\ processed' = TRUE
  /\ UNCHANGED <<agents, policies_table, policy_number_hash, uploaded_df, recon_step, assignment_mode,
                 selected_agent_id, agents_list, insert_calls, stored_rows,
                 import_result>>
  /\ UNCHANGED notAgency

\* the user picks another agent in selectbox idx; the run applies it, lines 582-593
SelectAgent ==
  /\ recon_step = 4
  /\ processed
  /\ \E idx \in 1..Len(agency_unmatched_transactions) :
       \E k \in 1..Len(agents_list) :
         /\ agent_assign[idx] # agents_list[k]
         /\ LET widgets == [agent_assign EXCEPT ![idx] = agents_list[k]]
            IN  /\ agency_unmatched_transactions' =
                     show_unmatched_tab(agency_unmatched_transactions, widgets, agents_list)
                /\ agent_assign' =
                     widgets_after(agency_unmatched_transactions, widgets, agents_list)
  /\ import_offered' = (unassigned_count(agency_unmatched_transactions) = 0)
  /\ UNCHANGED <<agents, policies_table, policy_number_hash, classification_runs, uploaded_df, recon_step, assignment_mode,
                 selected_agent_id, agents_list, processed,
                 agency_matched_transactions, insert_calls, stored_rows, import_result>>
  /\ UNCHANGED notAgency

\* import_agency_transactions lines 655-668: the report made from result.data,
\* the rows the insert returned
import_report(data, matched_list, unmatched_list) ==
  IF data # <<>>
    THEN <<TRUE, "Successfully imported", Len(data)>>
    ELSE <<FALSE, "Failed to insert transactions", 0>>

\* "Import All Transactions" pressed: show_review_step lines 455-476 and
\* import_agency_transactions; the storage returns the rows it inserted,
\* all of them, the first ones only, or none
ImportAllTransactions ==
  /\ recon_step = 4
  /\ processed
  /\ import_offered
  /\ unassigned_count(agency_unmatched_transactions) = 0
  /\ Len(insert_calls) < MaxInsertCalls
  /\ \E tick \in 1..SetMax({1, Len(agency_matched_transactions)
                                  + Len(agency_unmatched_transactions)}) :
     \E salted \in policy_number_hash :
     LET unmatched == show_unmatched_tab(agency_unmatched_transactions, agent_assign,
                                         agents_list)
         seconds == seconds_of_call(insert_calls,
                                    Len(agency_matched_transactions) + Len(unmatched), tick)
         batch == transactions_to_insert(agency_matched_transactions, unmatched, agency_id,
                                         uuid4(insert_calls), seconds, salted)
         hashed == \E k \in 1..Len(unmatched) : unmatched[k].policy_number # ""
         failed(report) ==
           /\ import_result' = report
           /\ agency_unmatched_transactions' = unmatched
           /\ UNCHANGED <<recon_step, uploaded_df, assignment_mode,
                          selected_agent_id, agents_list, processed,
                          agency_matched_transactions, import_offered>>
     IN  /\ policy_number_hash' = IF hashed THEN {salted} ELSE policy_number_hash
         /\ IF batch.returned
              THEN /\ failed(<<FALSE, "Some transactions are not assigned to agents", 0>>)
                   /\ UNCHANGED <<insert_calls, stored_rows>>
            ELSE IF batch.rows = <<>>
              THEN /\ failed(<<FALSE, "No transactions to import", 0>>)
                   /\ UNCHANGED <<insert_calls, stored_rows>>
            ELSE /\ insert_calls' = Append(insert_calls, batch.rows)
                 /\ \E inserted \in 0..Len(batch.rows) :
                      LET data == SubSeq(batch.rows, 1, inserted)
                          report == import_report(data, agency_matched_transactions,
                                                  unmatched)
                      IN  /\ stored_rows' = stored_rows \o data
                          /\ IF report[1]
                               THEN /\ import_result' = report
                                    \* clear_agency_recon_session
                                    /\ uploaded_df' = <<>>
                                    /\ assignment_mode' = None
                                    /\ selected_agent_id' = None
                                    /\ agents_list' = <<>>
                                    /\ processed' = FALSE
                                    /\ agency_matched_transactions' = <<>>
                                    /\ agency_unmatched_transactions' = <<>>
                                    /\ import_offered' = FALSE
                                    /\ recon_step' = 1
                               ELSE failed(report)
  /\ UNCHANGED <<agents, policies_table, agent_assign, classification_runs>>
  /\ UNCHANGED notAgency

\* "Re-process Matches" pressed, lines 488-493
ReprocessMatches ==
  /\ recon_step = 4
  /\ processed
  /\ processed' = FALSE
  /\ agency_matched_transactions' = <<>>
  /\ agency_unmatched_transactions' = <<>>
  /\ import_offered' = FALSE
  /\ UNCHANGED <<agents, policies_table, policy_number_hash, classification_runs, uploaded_df, recon_step, assignment_mode,
                 selected_agent_id, agents_list, agent_assign, insert_calls,
                 stored_rows, import_result>>
  /\ UNCHANGED notAgency

\* "Back to Mapping" pressed, lines 483-486
BackToMapping ==
  /\ recon_step = 4
  /\ recon_step' = 3
  /\ import_offered' = FALSE
  /\ UNCHANGED <<agents, policies_table, policy_number_hash, classification_runs, uploaded_df, assignment_mode, selected_agent_id,
                 agents_list, processed, agency_matched_transactions,
                 agency_unmatched_transactions, agent_assign, insert_calls,
                 stored_rows, import_result>>
  /\ UNCHANGED notAgency

(***************************************************************************)
(* agent_assignment_logic.py: the functions called on their own            *)
(***************************************************************************)
MaxValidAgents  == 2
MaxTransactions == 2

\* rows of table agents: the id is the key of the table
ValidAgentRows ==
  [id : {"agent-1", "agent-2"}, agency_id : Agencies, is_active : BOOLEAN]

ValidAgentLists ==
  {list \in SeqsUpTo(ValidAgentRows, MaxValidAgents) :
     \A i, j \in 1..Len(list) : i # j => list[i].id # list[j].id}

AgentIdArguments == {None, "", "agent-1", "agent-2", "agent-3"}

\* a transaction of the review lists, as reassign_transaction receives it
ReviewedTransactions ==
  {[policy_number |-> "POL-001", customer |-> "Mary Johnson",
    assigned_agent_id |-> a[1], assignment_method |-> a[2], reassigned |-> FALSE] :
     a \in {<<None, "manual">>, <<None, "needs_manual">>, <<"agent-1", "auto_assigned">>,
            <<"agent-1", "bulk_assigned">>, <<"agent-2", "manual_review">>}}

ReassignmentReasons == {"manual_reassignment", "owner_request"}

\* a variant of reassign_transaction that flips the key 'reassigned'
reassign_transaction_toggling(transaction, new_agent_id, reason) ==
  [transaction EXCEPT !.assigned_agent_id = new_agent_id,
                      !.assignment_method = reason,
                      !.reassigned = ~@]

\* agent_assignment_logic.reassign_transaction: the dict is updated in place
reassign_transaction(transaction, new_agent_id, reason) ==
  [transaction EXCEPT !.assigned_agent_id = new_agent_id,
                      !.assignment_method = reason,
                      !.reassigned = TRUE]

\* bulk_assign_transactions, lines 165-195: what becomes of one transaction
bulk_assigned(trans, assignment_strategy, selected, policies, agency) ==
  LET agent == auto_assign_by_policy_ownership(trans, policies, agency)
      assigned ==
        IF assignment_strategy = "assign_all" /\ selected # None /\ selected # ""
          THEN <<selected, "bulk_assigned">>
        ELSE IF assignment_strategy = "auto_assign"
          THEN (IF agent # None /\ agent # "" THEN <<agent, "auto_assigned">>
                ELSE <<None, "needs_manual">>)
        ELSE <<None, "manual">>
  IN  [policy_number     |-> trans.policy_number,
       customer          |-> trans.customer,
       assigned_agent_id |-> assigned[1],
       assignment_method |-> assigned[2]]

\* agent_assignment_logic.bulk_assign_transactions
bulk_assign_transactions(transactions, assignment_strategy, selected, policies, agency) ==
  [k \in 1..Len(transactions) |->
     bulk_assigned(transactions[k], assignment_strategy, selected, policies, agency)]

AssignIdle ==
  /\ assign_call = "idle"
  /\ assign_args = <<>>
  /\ assign_args_after = <<>>
  /\ assign_result = None

AssignStart ==
  /\ assign_call = "none"
  /\ assign_args = <<>>
  /\ assign_args_after = <<>>
  /\ assign_result = None

\* a call of validate_agent_assignment
ValidateAgentAssignment ==
  /\ assign_call = "none"
  /\ \E agent \in AgentIdArguments, agency \in Agencies, list \in ValidAgentLists :
       /\ assign_args' = [agent_id |-> agent, agency_id |-> agency, valid_agents |-> list]
       /\ assign_args_after' = [agent_id |-> agent, agency_id |-> agency, valid_agents |-> list]
       /\ assign_result' = validate_agent_assignment(agent, agency, list)
  /\ assign_call' = "validate_agent_assignment"
  /\ UNCHANGED notAssign

\* a call of reassign_transaction
ReassignTransaction ==
  /\ assign_call = "none"
  /\ \E transaction \in ReviewedTransactions, agent \in {"agent-1", "agent-2"},
        reason \in ReassignmentReasons :
       /\ assign_args' = [transaction |-> transaction, new_agent_id |-> agent,
                          reason |-> reason]
       /\ assign_args_after' =
            [transaction |-> reassign_transaction(transaction, agent, reason),
             new_agent_id |-> agent, reason |-> reason]
       /\ assign_result' = reassign_transaction(transaction, agent, reason)
  /\ assign_call' = "reassign_transaction"
  /\ UNCHANGED notAssign

\* a call of bulk_assign_transactions
BulkAssignTransactions ==
  /\ assign_call = "none"
  /\ \E transactions \in SeqsUpTo(StmtTransactions, MaxTransactions),
        strategy \in AssignmentModes, selected \in {None, "agent-2"},
        list \in SeqsUpTo(HistoryPolicyRows, MaxTransactions) :
       /\ assign_args' = [transactions |-> transactions, assignment_strategy |-> strategy,
                          selected_agent_id |-> selected, existing_policies |-> list,
                          agency_id |-> "agency-1"]
       /\ assign_args_after' = [transactions |-> transactions,
                                assignment_strategy |-> strategy,
                                selected_agent_id |-> selected, existing_policies |-> list,
                                agency_id |-> "agency-1"]
       /\ assign_result' =
            bulk_assign_transactions(transactions, strategy, selected, list, "agency-1")
  /\ assign_call' = "bulk_assign_transactions"
  /\ UNCHANGED notAssign

\* the reassignments of a review: up to MaxReassignments calls of
\* reassign_transaction on the transactions of one list, which the calls
\* update in place
MaxReassignments == 2

ReviewStart ==
  /\ assign_call = "none"
  /\ \E transactions \in SeqsUpTo(ReviewedTransactions, MaxTransactions) :
       /\ transactions # <<>>
       /\ assign_args = [transactions |-> transactions, calls |-> <<>>]
       /\ assign_args_after = transactions
  /\ assign_result = None

\* reassign_transaction(transactions[idx], agent, reason)
ReassignReviewed ==
  /\ assign_call \in {"none", "reassign_transaction"}
  /\ Len(assign_args.calls) < MaxReassignments
  /\ \E idx \in 1..Len(assign_args_after), agent \in {"agent-1", "agent-2"},
        reason \in ReassignmentReasons :
       /\ assign_args' =
            [assign_args EXCEPT !.calls =
               Append(@, [idx |-> idx, new_agent_id |-> agent, reason |-> reason])]
       /\ assign_args_after' =
            [assign_args_after EXCEPT ![idx] = reassign_transaction(@, agent, reason)]
       /\ assign_result' = reassign_transaction(assign_args_after[idx], agent, reason)
  /\ assign_call' = "reassign_transaction"
  /\ UNCHANGED notAssign

\* a call of process_statement_with_agent_attribution, with or without a
\* customer column in the mapping
ProcessStatement ==
  /\ assign_call = "none"
  /\ \E statement_df \in SeqsUpTo(RawStatementRows, MaxUploadedRows),
        customer_col \in {MappedCustomerColumn, None},
        rows \in SeqsUpTo(AgencyPolicyRows, MaxDbPolicies),
        mode \in AssignmentModes, selected \in {None, "agent-2"} :
       /\ assign_args' = [statement_df |-> statement_df, customer_col |-> customer_col,
                          policies |-> with_transaction_ids(rows), agency_id |-> "agency-1",
                          assignment_mode |-> mode, selected_agent_id |-> selected]
       /\ assign_args_after' = assign_args'
       /\ assign_result' =
            process_statement_with_agent_attribution(
              statement_df, customer_col, with_transaction_ids(rows), "agency-1", mode,
              selected)
  /\ assign_call' = "process_statement_with_agent_attribution"
  /\ UNCHANGED notAssign

(***************************************************************************)
(* commission_reconciliation.py: CommissionReconciler's carrier formats    *)
(* and normalize_carrier_statement.  A statement is given by its column    *)
(* headers; the normalized frame by the header each standard field takes   *)
(* its column from.                                                        *)
(***************************************************************************)
\* _load_carrier_formats: the 'columns' of each carrier format
carrier_formats ==
  [
    state_farm |->
      [policy_number     |-> <<"Policy Number", "Policy #", "Policy">>,
       client_name       |-> <<"Insured Name", "Client Name", "Name">>,
       commission_amount |-> <<"Commission", "Commission Amount", "Amount">>,
       effective_date    |-> <<"Effective Date", "Eff Date", "Date">>,
       transaction_type  |-> <<"Type", "Transaction Type", "Trans Type">>],
    progressive |->
      [policy_number     |-> <<"Policy Number", "Policy#">>,
       client_name       |-> <<"Named Insured", "Client">>,
       commission_amount |-> <<"Commission Amt", "Commission">>,
       effective_date    |-> <<"Effective Date", "Eff Date">>,
       transaction_type  |-> <<"Transaction", "Type">>],
    allstate |->
      [policy_number     |-> <<"Policy Number", "Policy">>,
       client_name       |-> <<"Insured", "Name">>,
       commission_amount |-> <<"Commission", "Amt">>,
       effective_date    |-> <<"Effective", "Date">>,
       transaction_type  |-> <<"Type">>],
    generic |->
      [policy_number     |-> <<"Policy Number", "Policy #", "Policy", "PolicyNumber">>,
       client_name       |-> <<"Client Name", "Insured Name", "Name", "Client", "Insured">>,
       commission_amount |-> <<"Commission", "Commission Amount", "Amount", "Amt", "Commission Amt">>,
       effective_date    |-> <<"Effective Date", "Eff Date", "Date", "Effective">>,
       transaction_type  |-> <<"Type", "Transaction Type", "Trans Type", "Transaction">>]]

StandardFields ==
  {"policy_number", "client_name", "commission_amount", "effective_date",
   "transaction_type"}

MaxColumns == 3

\* headers of uploaded statements: aliases in other cases, two headers that
\* differ in case only, headers that no format knows
StatementHeaders == {"Policy", "POLICY NUMBER", "policy", "Name", "Insured", "Commission", "AMT", "Date", "Allstate Agent", "Agent"}

CarrierNames == {"state_farm", "progressive", "allstate", "generic", "geico", None}

\* the strings the model lowers, lowered once
str_lower_memo ==
  {<<t, str_lower(Chars(t))>> :
     t \in StatementHeaders \cup {"state farm", "progressive", "allstate"}
           \cup UNION {{carrier_formats[c][f][k] : k \in 1..Len(carrier_formats[c][f])} :
                         c \in DOMAIN carrier_formats, f \in StandardFields}}

lower_of(t) == (CHOOSE p \in str_lower_memo : p[1] = t)[2]

\* detect_carrier_format: the patterns looked for in the lowered headers
detect_carrier_format(columns) ==
  LET has(word) == \E k \in 1..Len(columns) : str_contains(lower_of(columns[k]), lower_of(word))
  IN  IF has("state farm") THEN "state_farm"
      ELSE IF has("progressive") THEN "progressive"
      ELSE IF has("allstate") THEN "allstate"
      ELSE "generic"

\* line 130: self.carrier_formats.get(carrier, self.carrier_formats['generic'])
format_config(carrier) ==
  IF carrier \in DOMAIN carrier_formats THEN carrier_formats[carrier]
  ELSE carrier_formats["generic"]

\* line 137: the columns whose lowered header is the lowered alias, in
\* column order
matching_cols(columns, possible_col) ==
  LET same(col) == lower_of(col) = lower_of(possible_col)
  IN  SelectSeq(columns, same)

\* a variant of first_match that takes the first column matching any alias
first_match_in_column_order(columns, possible_columns, i) ==
  LET known == {k \in 1..Len(columns) :
                  \E a \in 1..Len(possible_columns) :
                    lower_of(columns[k]) = lower_of(possible_columns[a])}
  IN  IF known = {} THEN None ELSE columns[SetMin(known)]

\* lines 135-140: the loop over the aliases of one standard field, from
\* alias i on: the column of the first alias that matches, None without one
RECURSIVE first_match(_, _, _)
first_match(columns, possible_columns, i) ==
  IF i > Len(possible_columns) THEN None
  ELSE IF matching_cols(columns, possible_columns[i]) # <<>>
    THEN matching_cols(columns, possible_columns[i])[1]
  ELSE first_match(columns, possible_columns, i + 1)

\* lines 127-140: the standard fields of the normalized frame, each with the
\* header of the column it is taken from
normalize_carrier_statement(columns, carrier) ==
  LET name   == IF carrier = None THEN detect_carrier_format(columns) ELSE carrier
      config == format_config(name)
      found  == {f \in DOMAIN config : first_match(columns, config[f], 1) # None}
  IN  [f \in found |-> first_match(columns, config[f], 1)]

\* a call of normalize_carrier_statement on a frame with distinct headers
NormalizeCarrierStatement ==
  /\ assign_call = "none"
  /\ \E columns \in SeqsUpTo(StatementHeaders, MaxColumns), carrier \in CarrierNames :
       /\ \A i, j \in 1..Len(columns) : i # j => columns[i] # columns[j]
       /\ assign_args' = [columns |-> columns, carrier |-> carrier]
       /\ assign_args_after' = [columns |-> columns, carrier |-> carrier]
       /\ assign_result' = normalize_carrier_statement(columns, carrier)
  /\ assign_call' = "normalize_carrier_statement"
  /\ UNCHANGED notAssign

(***************************************************************************)
(* Specifications                                                          *)
(***************************************************************************)
ReconNext == MatchExpected \/ FinishMatch

ReconInit == ReconStart /\ MatcherIdle /\ AgencyIdle /\ AssignIdle

SpecRecon == ReconInit /\ [][ReconNext]_vars

MatcherNext ==
  \/ FindMatchingPolicy
  \/ AutoAssignByPolicyOwnership
  \/ AutoAssignByCustomerHistory

MatcherInit == MatcherStart /\ ReconIdle /\ AgencyIdle /\ AssignIdle

SpecMatcher == MatcherInit /\ [][MatcherNext]_vars

HistoryNext ==
  \/ AutoAssignByPolicyOwnership
  \/ AutoAssignByCustomerHistory

HistoryInit == HistoryStart /\ ReconIdle /\ AgencyIdle /\ AssignIdle

SpecHistory == HistoryInit /\ [][HistoryNext]_vars

AgencyNext ==
  \/ DeactivateAgent
  \/ ShowAssignmentStep
  \/ ShowMappingStep
  \/ ShowReviewStep
  \/ SelectAgent
  \/ ImportAllTransactions
  \/ ReprocessMatches
  \/ BackToMapping

AgencyInit == AgencyStart /\ ReconIdle /\ MatcherIdle /\ AssignIdle

SpecAgency == AgencyInit /\ [][AgencyNext]_vars

AssignNext ==
  \/ ValidateAgentAssignment
  \/ ReassignTransaction
  \/ BulkAssignTransactions

AssignInit == AssignStart /\ ReconIdle /\ MatcherIdle /\ AgencyIdle

SpecAssign == AssignInit /\ [][AssignNext]_vars

AttributionNext ==
  \/ ProcessStatement
  \/ BulkAssignTransactions

AttributionInit == AssignStart /\ ReconIdle /\ MatcherIdle /\ AgencyIdle

SpecAttribution == AttributionInit /\ [][AttributionNext]_vars

ReviewNext == ReassignReviewed

ReviewInit == ReviewStart /\ ReconIdle /\ MatcherIdle /\ AgencyIdle

SpecReview == ReviewInit /\ [][ReviewNext]_vars

NormalizeNext == NormalizeCarrierStatement

NormalizeInit == AssignStart /\ ReconIdle /\ MatcherIdle /\ AgencyIdle

SpecNormalize == NormalizeInit /\ [][NormalizeNext]_vars

(***************************************************************************)
(* Properties of CommissionReconciler.match_transactions (SpecRecon)       *)
(***************************************************************************)
\* how often an expected row, or a statement row, occurs in the filing history
filed_expected(i) == Cardinality({k \in 1..Len(filed) : filed[k].exp_idx = i})
filed_statement(j) == Cardinality({k \in 1..Len(filed) : filed[k].carr_idx = j})
filed_in(list) == Cardinality({k \in 1..Len(filed) : filed[k].list = list})

pairings == SelectSeq(filed, is_pairing)

C2_NoReuse ==
  /\ \A k, l \in 1..Len(pairings) :
       k # l => /\ pairings[k].carr_idx # pairings[l].carr_idx
                /\ pairings[k].exp_idx # pairings[l].exp_idx
  /\ Len(pairings) = Len(matched) + Len(amount_discrepancies)
  /\ pc # "done" => matched_carrier_indices = {pairings[k].carr_idx : k \in 1..Len(pairings)}

\* two accepted pairings, where the second expected record scores higher on
\* the row the first one claimed than on the row it was paired with
C2_Witness ==
  /\ Len(pairings) = 2
  /\ pair_score(expected_commissions[pairings[2].exp_idx],
                carrier_statement[pairings[1].carr_idx])
       > pair_score(expected_commissions[pairings[2].exp_idx],
                    carrier_statement[pairings[2].carr_idx])

\* C3: a pairing is accepted only if the policy number of the expected record
\* equals the policy number of the statement row.
C3_AcceptedOnlyOnPolicyNumber ==
  \A k \in 1..Len(pairings) :
    <<expected_commissions[pairings[k].exp_idx].policy_number,
      carrier_statement[pairings[k].carr_idx].policy_number, TRUE>>
        \in policy_number_equal_memo

\* the record that the k-th entry of the filing history stands for
filed_record(k) ==
  LET n == Cardinality({j \in 1..k : filed[j].list = filed[k].list})
  IN  IF filed[k].list = "matched" THEN matched[n] ELSE amount_discrepancies[n]

\* |actual - expected| / expected * 100 > amount_tolerance_pct, on the decimal
\* amounts (in hundredths)
exceeds_amount_tolerance(expected, actual) ==
  Abs(actual - expected) * 100 > amount_tolerance_pct * expected

\* C12: an accepted pair is filed under amount_discrepancies if and only if
\* the absolute percentage difference between the actual and the expected
\* amount is strictly above amount_tolerance_pct (a difference of exactly the
\* tolerance is filed under matched), and its record carries the expected
\* amount, the actual amount and a difference with the sign of actual -
\* expected.
C12_DiscrepancyIffAboveTolerance ==
  \A k \in 1..Len(filed) :
    is_pairing(filed[k]) =>
      LET e == expected_commissions[filed[k].exp_idx].expected_commission
          a == carrier_statement[filed[k].carr_idx].commission_amount
      IN  /\ (filed[k].list = "amount_discrepancies") <=> exceeds_amount_tolerance(e, a)
          /\ filed_record(k).expected_amount = e
          /\ filed_record(k).actual_amount = a
          /\ filed_record(k).difference.neg = (a < e)

(***************************************************************************)
(* Properties of find_matching_policy and of the assignment strategies     *)
(* (SpecMatcher)                                                           *)
(***************************************************************************)
\* the positions of the policies of the caller's agency
own_agency == {i \in 1..Len(existing_policies) : existing_policies[i].agency_id = agency_id}

\* the fuzzy name score of the policy at position i against the transaction
score_at(i) == customer_score_of(stmt_trans.customer, existing_policies[i].customer)

\* the own-agency policies that carry the transaction's policy number
same_number ==
  {i \in own_agency : existing_policies[i].policy_number = stmt_trans.policy_number}

tier1_candidates == {i \in same_number : score_at(i) > 80}

matching_done == call = "find_matching_policy"

\* C4: when some policy of the agency has the transaction's non-empty policy
\* number and a name score above 80, the result has confidence 95 and label
\* "Exact Policy + Customer" and refers to such a policy.
C4_ExactPolicyAndCustomer ==
  (matching_done /\ stmt_trans.policy_number # "" /\ tier1_candidates # {}) =>
    /\ match_result.match_type = "Exact Policy + Customer"
    /\ match_result.confidence = 95
    /\ \E i \in tier1_candidates : match_result.policy = existing_policies[i]

\* a tier-1 policy found after a policy with the same number and a lower score
C4_Witness ==
  /\ matching_done
  /\ stmt_trans.policy_number # ""
  /\ \E i \in tier1_candidates : \E j \in same_number : j < i /\ score_at(j) <= 80
  /\ match_result.match_type = "Exact Policy + Customer"

\* C5: when some policy of the agency has the transaction's policy number and
\* every such policy has a name score of 80 or less, the result has confidence
\* 75 and label "Policy Match" on a policy with that policy number.
C5_PolicyMatchForAnyLowScore ==
  (matching_done /\ stmt_trans.policy_number # "" /\ same_number # {}
     /\ tier1_candidates = {}) =>
    /\ match_result.match_type = "Policy Match"
    /\ match_result.confidence = 75
    /\ match_result.policy.policy_number = stmt_trans.policy_number

\* the name scores of the policies of the agency
own_scores == {score_at(i) : i \in own_agency}

\* C6: for a transaction without policy number, if some policy of the agency
\* has a name score above 90 the result is labelled "Customer Match", refers to
\* a policy with the highest score among the policies of the agency and has
\* that score as confidence; if none has, there is no match.
C6_CustomerMatch ==
  (matching_done /\ stmt_trans.policy_number = "") =>
    IF \E sc \in own_scores : sc > 90
      THEN /\ match_result.match_type = "Customer Match"
           /\ match_result.confidence = SetMax(own_scores)
           /\ \E i \in own_agency : /\ match_result.policy = existing_policies[i]
                                    /\ score_at(i) = SetMax(own_scores)
      ELSE match_result = NoMatch

\* the highest score is found after a lower one that is also above 90
C6_Witness ==
  /\ matching_done
  /\ stmt_trans.policy_number = ""
  /\ \E i, j \in own_agency : i < j /\ score_at(i) > 90 /\ score_at(j) > score_at(i)
  /\ match_result.match_type = "Customer Match"

\* the best score of the policy-number scan when it finds no tier-1 policy
best_same_number_score == SetMax({score_at(i) : i \in same_number} \cup {0})

\* C7: the final test accepts from 61 (best score 60: no match, 61: a match)
\* and the customer tier accepts from 91 (name score 90: no Customer Match,
\* 91: a Customer Match with confidence 91).
C7_Boundaries ==
  matching_done =>
    /\ (stmt_trans.policy_number # "" /\ tier1_candidates = {}) =>
         /\ best_same_number_score = 60 => match_result = NoMatch
         /\ best_same_number_score = 61 => match_result.match_type = "Policy Match"
    /\ (stmt_trans.policy_number = "" /\ own_scores # {}) =>
         /\ SetMax(own_scores) = 90 => match_result = NoMatch
         /\ SetMax(own_scores) = 91 =>
              /\ match_result.match_type = "Customer Match"
              /\ match_result.confidence = 91

\* a transaction whose best policy-number candidate scores exactly 61, next
\* to a same-number policy scoring exactly 60
C7_Witness ==
  /\ matching_done
  /\ stmt_trans.policy_number # ""
  /\ tier1_candidates = {}
  /\ best_same_number_score = 61
  /\ \E i \in same_number : score_at(i) = 60
  /\ match_result.match_type = "Policy Match"

\* the policy list as the caller's agency alone would see it
same_agency_row(p) == p.agency_id = agency_id
own_policies == SelectSeq(existing_policies, same_agency_row)
own_agents == {existing_policies[i].agent_id : i \in own_agency}

\* C10: the three functions return a policy, or an agent id, of a record of
\* the caller's agency only, and return what they return when the records of
\* the other agencies are taken out of the list.
C10_TenantIsolation ==
  /\ matching_done =>
       /\ match_result = find_matching_policy(stmt_trans, own_policies, agency_id)
       /\ match_result # NoMatch =>
            /\ match_result.policy.agency_id = agency_id
            /\ \E i \in own_agency : match_result.policy = existing_policies[i]
            /\ match_result.matched_agent_id \in own_agents
  /\ call = "auto_assign_by_policy_ownership" =>
       /\ agent_result =
            auto_assign_by_policy_ownership(stmt_trans, own_policies, agency_id)
       /\ agent_result \in own_agents \cup {None}
  /\ call = "auto_assign_by_customer_history" =>
       /\ agent_result =
            auto_assign_by_customer_history(stmt_trans.customer, own_policies, agency_id)
       /\ agent_result \in own_agents \cup {None}

\* the list starts with a policy of another agency that has the transaction's
\* policy number and customer, and the match is a later policy of the agency
C10_Witness ==
  /\ matching_done
  /\ Len(existing_policies) >= 2
  /\ existing_policies[1].agency_id # agency_id
  /\ existing_policies[1].policy_number = stmt_trans.policy_number
  /\ score_at(1) = 100
  /\ match_result # NoMatch
  /\ match_result.policy = existing_policies[2]

(***************************************************************************)
(* Properties of the import of the agency reconciliation page (SpecAgency) *)
(***************************************************************************)
records_of(rows) == {rows[k] : k \in 1..Len(rows)}

\* C8: no record with a null agent_id is handed to the storage insert, and no
\* row with a null agent_id is stored.
C8_NoNullAgentInserted ==
  /\ \A c \in 1..Len(insert_calls) :
       \A r \in records_of(insert_calls[c]) : r.agent_id # None
  /\ \A r \in records_of(stored_rows) : r.agent_id # None

\* C9: every record handed to the storage insert carries an agent id that, in
\* the agents table at the time of the insert, belongs to an active agent of
\* the agency.
C9_InsertedAgentsValidated ==
  [][insert_calls' # insert_calls =>
       \A r \in records_of(insert_calls'[Len(insert_calls')]) :
         validate_agent_assignment(r.agent_id, agency_id, agents)[1]]_vars

\* the record a commit builds for the k-th matched transaction
stmt_entry_of(call_rows, k) == call_rows[k]

\* C11: every matched transaction carries, as matched_agent_id and as
\* assigned_agent_id, the agent_id of the policy record it was matched to (a
\* record of the agency's policies), and the -STMT- entry a commit builds for
\* it carries that agent id, in every assignment mode and for every selected
\* agent.
C11_MatchedAgentInherited ==
  /\ [](\A k \in 1..Len(agency_matched_transactions) :
          LET m == agency_matched_transactions[k]
          IN  /\ m.matched_agent_id = m.match.agent_id
              /\ m.assigned_agent_id = m.match.agent_id
              /\ in_list(m.match,
                         load_agency_policies_for_matching(policies_table, agency_id)))
  /\ [][insert_calls' # insert_calls =>
          \A k \in 1..Len(agency_matched_transactions) :
            LET r == stmt_entry_of(insert_calls'[Len(insert_calls')], k)
            IN  /\ r.kind = "-STMT-"
                /\ r.agent_id = agency_matched_transactions[k].match.agent_id]_vars

\* a commit (refused by the storage, so the session is still there) of a
\* matched transaction in mode assign_all, where the operator selected another
\* agent than the owner of the matched policy
C11_Witness ==
  /\ insert_calls # <<>>
  /\ recon_step = 4
  /\ assignment_mode = "assign_all"
  /\ Len(agency_matched_transactions) >= 1
  /\ agency_matched_transactions[1].matched_agent_id # selected_agent_id
  /\ agency_matched_transactions[1].matched_agent_id # None
  /\ insert_calls[1][1].kind = "-STMT-"
  /\ insert_calls[1][1].agent_id = agency_matched_transactions[1].match.agent_id

\* C13: an import is reported as a success only when the storage inserted as
\* many rows as the commit submitted: a partial insert is a failure.
C13_SuccessOnlyWhenAllInserted ==
  [][(insert_calls' # insert_calls /\ import_result'[1]) =>
       Len(stored_rows') - Len(stored_rows) = Len(insert_calls'[Len(insert_calls')])]_vars

\* C14: the records one import call submits have pairwise distinct
\* Transaction IDs, also when two statement rows matched the same policy or two
\* unmatched rows share a policy number and the clock did not tick in between.
C14_DistinctTransactionIds ==
  \A c \in 1..Len(insert_calls) :
    \A i, j \in 1..Len(insert_calls[c]) :
      i # j => insert_calls[c][i].transaction_id # insert_calls[c][j].transaction_id

\* C15: every record of one commit, -STMT- entry or new record, carries the
\* reconciliation identifier generated for that commit.
C15_OneBatchIdentifier ==
  \A c \in 1..Len(insert_calls) :
    \A r \in records_of(insert_calls[c]) :
      /\ r.reconciliation_id # None
      /\ r.reconciliation_id = insert_calls[c][1].reconciliation_id

\* C18: a reassignment of an unmatched transaction before the commit overwrites
\* its agent id and its method tag and sets its reassignment flag; here through
\* the agent selector of the review step.
C18_ReassignmentFlagged ==
  [][(processed /\ processed'
        /\ Len(agency_unmatched_transactions') = Len(agency_unmatched_transactions)) =>
       \A k \in 1..Len(agency_unmatched_transactions) :
         agency_unmatched_transactions'[k].assigned_agent_id
             # agency_unmatched_transactions[k].assigned_agent_id =>
           /\ agency_unmatched_transactions'[k].assignment_method = "manual_review"
           /\ agency_unmatched_transactions'[k].reassigned]_vars

\* C19: auto_assign_by_policy_ownership returns the agent of a policy of the
\* agency with the transaction's policy number; when that lookup yields no
\* agent, the agent of a policy of the agency with the transaction's customer
\* (case-insensitive, trimmed); None only when both lookups yield no agent.
C19_OwnershipFallback ==
  call = "auto_assign_by_policy_ownership" =>
    LET own == {k \in 1..Len(existing_policies) :
                  /\ existing_policies[k].agency_id = agency_id
                  /\ existing_policies[k].agent_id # None}
        by_number == {k \in own :
                        /\ stmt_trans.policy_number # ""
                        /\ existing_policies[k].policy_number = stmt_trans.policy_number}
        by_customer == {k \in own :
                          /\ stmt_trans.customer # ""
                          /\ <<stmt_trans.customer, existing_policies[k].customer, TRUE>>
                                \in customer_equal_memo}
    IN  /\ agent_result = None <=> by_number \cup by_customer = {}
        /\ agent_result # None =>
             \E k \in (IF by_number # {} THEN by_number ELSE by_customer) :
               agent_result = existing_policies[k].agent_id

(***************************************************************************)
(* Properties of auto_assign_by_customer_history (SpecHistory)             *)
(***************************************************************************)
\* the policies that count for the customer: of the agency, with the customer
\* name (case-insensitive, trimmed) and with an agent
history_of_customer ==
  {k \in 1..Len(existing_policies) :
     /\ existing_policies[k].agency_id = agency_id
     /\ <<stmt_trans.customer, existing_policies[k].customer, TRUE>> \in customer_equal_memo
     /\ existing_policies[k].agent_id # None}

occurrences(agent) ==
  Cardinality({k \in history_of_customer : existing_policies[k].agent_id = agent})

first_occurrence(agent) ==
  SetMin({k \in history_of_customer : existing_policies[k].agent_id = agent})

\* the most frequent agent of the history, the earliest in the list on a tie
most_frequent_agent ==
  IF history_of_customer = {} THEN None
  ELSE existing_policies[
         CHOOSE k \in history_of_customer :
           /\ k = first_occurrence(existing_policies[k].agent_id)
           /\ \A j \in history_of_customer :
                \/ occurrences(existing_policies[j].agent_id)
                     < occurrences(existing_policies[k].agent_id)
                \/ /\ occurrences(existing_policies[j].agent_id)
                        = occurrences(existing_policies[k].agent_id)
                   /\ first_occurrence(existing_policies[j].agent_id) >= k].agent_id

\* C20 as stated: auto_assign_by_customer_history returns the most frequent
\* agent among the policies of the agency with the given customer name and an
\* agent, the first in the list on a tie, and None when there is no such policy.
C20_MostFrequentAgent ==
  call = "auto_assign_by_customer_history" => agent_result = most_frequent_agent

\* C20 amended: the same for a non-empty customer name; for the empty name the
\* function returns None, whatever the policies.
C20_MostFrequentAgentOfNamedCustomer ==
  call = "auto_assign_by_customer_history" =>
    agent_result = IF stmt_trans.customer = "" THEN None ELSE most_frequent_agent

\* the customer has three policies with an agent, the first of another agent
\* than the two that follow
C20_Witness ==
  /\ call = "auto_assign_by_customer_history"
  /\ history_of_customer = {1, 2, 3}
  /\ existing_policies[1].agent_id # existing_policies[2].agent_id
  /\ existing_policies[2].agent_id = existing_policies[3].agent_id
  /\ agent_result = existing_policies[2].agent_id

(***************************************************************************)
(* Properties of the assignment functions (SpecAssign)                     *)
(***************************************************************************)
\* the agent of the list with the id, as a set of one or no index
agent_with_id(valid_agents, agent) ==
  {k \in 1..Len(valid_agents) : valid_agents[k].id = agent}

\* C17: validate_agent_assignment returns (True, "") exactly when the id is
\* not empty, an agent of the list has it, that agent is of the given agency
\* and is active; otherwise False with the message of the reason; the
\* arguments are left as they were.
C17_ValidationExact ==
  assign_call = "validate_agent_assignment" =>
    LET a == assign_args
        found == agent_with_id(a.valid_agents, a.agent_id)
        no_id == a.agent_id = None \/ a.agent_id = ""
        of_agency == \E k \in found : a.valid_agents[k].agency_id = a.agency_id
        active == \E k \in found : a.valid_agents[k].is_active
    IN  /\ assign_result[1] = (~no_id /\ found # {} /\ of_agency /\ active)
        /\ assign_result[2] =
             (IF no_id THEN "No agent ID provided"
              ELSE IF found = {} THEN "Agent ID not found in agency"
              ELSE IF ~of_agency THEN "Agent does not belong to this agency"
              ELSE IF ~active THEN "Agent is inactive"
              ELSE "")
        /\ assign_result[1] <=> assign_result[2] = ""
        /\ assign_args_after = assign_args

\* an agent of the agency who is in the list but not active is refused
C17_Witness ==
  /\ assign_call = "validate_agent_assignment"
  /\ \E k \in agent_with_id(assign_args.valid_agents, assign_args.agent_id) :
       /\ assign_args.valid_agents[k].agency_id = assign_args.agency_id
       /\ ~assign_args.valid_agents[k].is_active
  /\ assign_result = <<FALSE, "Agent is inactive">>

attributed == assign_call = "process_statement_with_agent_attribution"

bulk_mode(args) == args.assignment_mode = "assign_all" /\ args.selected_agent_id # None

\* C21: under mode 'assign_all' with a selected agent every unmatched
\* transaction of the run has the selected agent id and the method
\* "bulk_assigned", and every matched transaction has the agent of the policy
\* it matched; bulk_assign_transactions gives every transaction the selected
\* agent and the same method.
C21_BulkAssignsUnmatched ==
  /\ (attributed /\ bulk_mode(assign_args)) =>
        /\ \A k \in 1..Len(assign_result.unmatched) :
             /\ assign_result.unmatched[k].assigned_agent_id
                  = assign_args.selected_agent_id
             /\ assign_result.unmatched[k].assignment_method = "bulk_assigned"
        /\ \A k \in 1..Len(assign_result.matched) :
             /\ assign_result.matched[k].assigned_agent_id
                  = assign_result.matched[k].match.agent_id
             /\ assign_result.matched[k].assignment_method = "matched_policy"
  /\ (/\ assign_call = "bulk_assign_transactions"
      /\ assign_args.assignment_strategy = "assign_all"
      /\ assign_args.selected_agent_id # None) =>
        /\ Len(assign_result) = Len(assign_args.transactions)
        /\ \A k \in 1..Len(assign_result) :
             /\ assign_result[k].assigned_agent_id = assign_args.selected_agent_id
             /\ assign_result[k].assignment_method = "bulk_assigned"

\* a bulk run that returns a matched transaction of another agent's policy
\* and an unmatched transaction
C21_Witness ==
  /\ attributed
  /\ bulk_mode(assign_args)
  /\ Len(assign_result.unmatched) = 1
  /\ Len(assign_result.matched) = 1
  /\ assign_result.matched[1].assigned_agent_id = "agent-1"
  /\ assign_result.unmatched[1].assigned_agent_id = "agent-2"

\* the cells of a statement row, as the claims speak of them
has_customer_name(row) == row.customer # None /\ str_strip(Chars(row.customer)) # <<>>

has_policy_number(row) == row.policy_number # None /\ row.policy_number # ""

is_footer_row(row) ==
  /\ row.customer # None
  /\ \E w \in TotalsPattern : str_contains(str_lower(Chars(row.customer)), Chars(w))

returned_count == Len(assign_result.matched) + Len(assign_result.unmatched)

\* C23: with the customer column mapped, a non-footer row is excluded before
\* matching exactly when it has neither a customer name nor a policy number:
\* the rows that reach the matcher (each is returned as matched or unmatched)
\* are as many as the non-footer rows with a customer name or a policy number.
C23_ExcludedIffNoCustomerAndNoPolicy ==
  (attributed /\ assign_args.customer_col # None) =>
    returned_count =
      Cardinality({k \in 1..Len(assign_args.statement_df) :
                     /\ ~is_footer_row(assign_args.statement_df[k])
                     /\ \/ has_customer_name(assign_args.statement_df[k])
                        \/ has_policy_number(assign_args.statement_df[k])})

\* a row passes the exclusions of lines 226-236 and 246: with a customer
\* column it is no totals row and has a customer name, without one it has a
\* policy number
passes_exclusion(row, customer_col) ==
  IF customer_col # None
    THEN ~is_footer_row(row) /\ has_customer_name(row)
    ELSE has_policy_number(row)

\* what the lists keep of a statement row
fields_of_row(row, customer_col) ==
  <<row.policy_number, IF customer_col # None THEN row.customer ELSE "", row.amount>>

fields_of_item(item) == <<item.policy_number, item.customer, item.amount>>

times_in(list, fields) ==
  Cardinality({k \in 1..Len(list) : fields_of_item(list[k]) = fields})

\* C24: every statement row that passes the exclusions is returned in exactly
\* one of the lists matched and unmatched, once: each row is in the lists as
\* often as it passed, no row is in both lists, and the lengths of the two
\* lists add up to the number of rows that passed.
C24_NoSilentDrop ==
  attributed =>
    LET df     == assign_args.statement_df
        col    == assign_args.customer_col
        passed == {k \in 1..Len(df) : passes_exclusion(df[k], col)}
    IN  /\ returned_count = Cardinality(passed)
        /\ \A k \in 1..Len(df) :
             LET fields == fields_of_row(df[k], col)
                 same   == {j \in passed : fields_of_row(df[j], col) = fields}
             IN  /\ times_in(assign_result.matched, fields)
                      + times_in(assign_result.unmatched, fields) = Cardinality(same)
                 /\ \/ times_in(assign_result.matched, fields) = 0
                    \/ times_in(assign_result.unmatched, fields) = 0

\* a statement of a row that is matched and a row without match and without
\* agent: both are returned
C24_Witness ==
  /\ attributed
  /\ Len(assign_args.statement_df) = 2
  /\ Len(assign_result.matched) = 1
  /\ Len(assign_result.unmatched) = 1
  /\ assign_result.unmatched[1].assigned_agent_id = None
  /\ assign_result.matched[1].policy_number = ""

(***************************************************************************)
(* Properties of the review step (SpecAgency), continued                   *)
(***************************************************************************)
latest_run(runs) == runs[Len(runs)]

\* C22: displaying the review page gives no agent to an unresolved
\* transaction: in the step that classifies the statement and draws the page,
\* with no selection by the operator, every unmatched transaction that the
\* classification left without agent (method 'manual' or 'needs_manual') is
\* still without agent when the page has been drawn.
C22_DisplayAssignsNoAgent ==
  [][(~processed /\ processed') =>
       \A k \in 1..Len(agency_unmatched_transactions') :
         latest_run(classification_runs').unmatched[k].assigned_agent_id = None
           => agency_unmatched_transactions'[k].assigned_agent_id = None]_vars

(***************************************************************************)
(* Properties of CommissionReconciler.match_transactions (SpecRecon),      *)
(* continued                                                               *)
(***************************************************************************)
\* C25: the summary of a run that returned agrees with the lists: the four
\* counts are the lengths of the lists, total_difference is
\* total_actual_amount - total_expected_amount, and match_rate is
\* matched_count / total_expected * 100, 0 without expected records and at
\* most 100.
C25_SummaryAgrees ==
  pc = "done" =>
    /\ summary.total_expected = Len(expected_commissions)
    /\ summary.matched_count = Len(matched)
    /\ summary.missing_count = Len(missing_from_statement)
    /\ summary.unexpected_count = Len(unexpected_in_statement)
    /\ summary.discrepancy_count = Len(amount_discrepancies)
    /\ summary.total_difference
         = summary.total_actual_amount - summary.total_expected_amount
    /\ IF summary.total_expected = 0
         THEN summary.match_rate[1] = 0
         ELSE summary.match_rate[1] * summary.total_expected
                = summary.matched_count * 100 * summary.match_rate[2]
    /\ summary.match_rate[1] <= 100 * summary.match_rate[2]

\* a run with a matched pairing, a pairing with an amount discrepancy and a
\* total difference
C25_Witness ==
  /\ pc = "done"
  /\ summary.total_expected = 2
  /\ summary.matched_count = 1
  /\ summary.discrepancy_count = 1
  /\ summary.total_difference # 0

(***************************************************************************)
(* Properties of reassign_transaction over a review (SpecReview)           *)
(***************************************************************************)
calls_on(k) == {n \in 1..Len(assign_args.calls) : assign_args.calls[n].idx = k}

\* what a reassignment makes of a transaction
reassigned_to(transaction, c) ==
  [transaction EXCEPT !.assigned_agent_id = c.new_agent_id,
                      !.assignment_method = c.reason,
                      !.reassigned = TRUE]

\* C26: the reassignments of a review are independent and idempotent: after
\* any sequence of calls a transaction that no call had as its target is as
\* it was, and a transaction that was a target is what the last call on it
\* alone makes of the original; so two calls on distinct transactions give
\* the same state in either order, and a call made twice gives the state of
\* the call made once.
C26_ReassignmentsIndependent ==
  \A k \in 1..Len(assign_args_after) :
    assign_args_after[k] =
      IF calls_on(k) = {} THEN assign_args.transactions[k]
      ELSE reassigned_to(assign_args.transactions[k],
                         assign_args.calls[SetMax(calls_on(k))])

\* two reassignments of distinct transactions to distinct agents
C26_Witness ==
  /\ Len(assign_args.calls) = 2
  /\ assign_args.calls[1].idx = 2
  /\ assign_args.calls[2].idx = 1
  /\ assign_args_after[1].assigned_agent_id = "agent-1"
  /\ assign_args_after[2].assigned_agent_id = "agent-2"
  /\ assign_args.transactions[1].assigned_agent_id = None

(***************************************************************************)
(* Properties of the commit (SpecAgency), continued                        *)
(***************************************************************************)
\* the seconds a commit that is call number n of the session can read
seconds_of_commit(n) == {2 * (n - 1), 2 * (n - 1) + 1}

\* C27: the records of a commit: the k-th matched transaction yields a
\* record whose transaction id is the Transaction ID of its policy, "-STMT-"
\* and a timestamp of the commit, with expected commission 0 and the amount
\* of the statement row as paid amount; the k-th unmatched transaction yields
\* a record with the amount of the statement row as expected commission and
\* paid amount 0.
C27_CommitRecords ==
  [][insert_calls' # insert_calls =>
       LET rows == insert_calls'[Len(insert_calls')]
           m    == agency_matched_transactions
           u    == agency_unmatched_transactions
       IN  /\ Len(rows) = Len(m) + Len(u)
           /\ \A k \in 1..Len(m) :
                /\ rows[k].transaction_id.original = m[k].match.transaction_id
                /\ rows[k].transaction_id.infix = "-STMT-"
                /\ rows[k].transaction_id.timestamp
                     \in seconds_of_commit(Len(insert_calls'))
                /\ rows[k].total_agent_comm = 0
                /\ rows[k].agent_paid_amount = m[k].amount
           /\ \A k \in 1..Len(u) :
                /\ rows[Len(m) + k].total_agent_comm = u[k].amount
                /\ rows[Len(m) + k].agent_paid_amount = 0]_vars

\* a commit of a matched and an unmatched transaction of different amounts
C27_Witness ==
  /\ Len(insert_calls) = 1
  /\ Len(insert_calls[1]) = 2
  /\ insert_calls[1][1].kind = "-STMT-"
  /\ insert_calls[1][1].agent_paid_amount = 100
  /\ insert_calls[1][1].transaction_id.original = 2
  /\ insert_calls[1][2].kind = "NEW"
  /\ insert_calls[1][2].total_agent_comm = 250

\* the statement rows claimed before the k-th filing
claimed_before(k) == {filed[j].carr_idx : j \in {i \in 1..(k - 1) : is_pairing(filed[i])}}

score_of(e, c) == pair_score(expected_commissions[e], carrier_statement[c])

\* C28: the matching is greedy in a fixed order: the expected rows are filed
\* in their order; a pairing takes a statement row that no earlier expected
\* row claimed, whose score for the expected row is the highest among the
\* unclaimed rows and which is the earliest row of that score; an expected
\* row is reported missing only when no unclaimed row reaches the threshold.
C28_GreedyInOrder ==
  /\ \A k \in 1..Len(filed) :
       filed[k].exp_idx # 0 =>
         /\ filed[k].exp_idx = k
         /\ k < exp_idx
  /\ \A k \in 1..Len(filed) :
       LET free == (1..Len(carrier_statement)) \ claimed_before(k)
       IN  /\ is_pairing(filed[k]) =>
                /\ filed[k].carr_idx \in free
                /\ accept_score(score_of(filed[k].exp_idx, filed[k].carr_idx))
                /\ \A j \in free :
                     \/ score_of(filed[k].exp_idx, j)
                          < score_of(filed[k].exp_idx, filed[k].carr_idx)
                     \/ /\ score_of(filed[k].exp_idx, j)
                             = score_of(filed[k].exp_idx, filed[k].carr_idx)
                        /\ j >= filed[k].carr_idx
           /\ filed[k].list = "missing_from_statement" =>
                \A j \in free : ~accept_score(score_of(filed[k].exp_idx, j))

\* two expected rows contest two statement rows of equal score: the first
\* expected row has claimed the first statement row, the second the other
C28_Witness ==
  /\ Len(filed) >= 2
  /\ is_pairing(filed[1]) /\ filed[1].exp_idx = 1 /\ filed[1].carr_idx = 1
  /\ is_pairing(filed[2]) /\ filed[2].exp_idx = 2 /\ filed[2].carr_idx = 2
  /\ score_of(1, 1) = score_of(1, 2)
  /\ score_of(2, 1) = score_of(2, 2)

(***************************************************************************)
(* Properties of find_matching_policy (SpecMatcher), continued             *)
(***************************************************************************)
\* C29: the customer tier is consulted whenever the policy-number tiers
\* accept nothing: if some policy of the agency has a name score above 90
\* against the transaction's customer, the result is a match, also when
\* another policy has the transaction's policy number and a name score of 60
\* or less.
C29_CustomerTierConsulted ==
  (matching_done /\ \E i \in own_agency : score_at(i) > 90) =>
    match_result # NoMatch

(***************************************************************************)
(* Properties of normalize_carrier_statement (SpecNormalize)               *)
(***************************************************************************)
normalized == assign_call = "normalize_carrier_statement"

\* the alias list of a standard field in the format of a named carrier; a
\* name without format has the generic one
aliases_of(carrier, field) ==
  IF carrier \in {"state_farm", "progressive", "allstate"}
    THEN carrier_formats[carrier][field]
    ELSE carrier_formats.generic[field]

\* header and alias are the same but for the case of the letters
same_header(header, alias) == str_lower(Chars(header)) = str_lower(Chars(alias))

alias_matches(columns, alias) == \E k \in 1..Len(columns) : same_header(columns[k], alias)

\* C30: for a named carrier, every standard field of the result is taken
\* from a column whose header matches, case-insensitively, the first alias of
\* the field (in the order of the alias list of the carrier's format) that
\* matches a header at all; a standard field none of whose aliases matches a
\* header is not in the result, and the result has no other fields; a
\* carrier name without format of its own uses the generic format.
C30_FirstAliasWins ==
  (normalized /\ assign_args.carrier # None) =>
    /\ DOMAIN assign_result \subseteq StandardFields
    /\ \A field \in StandardFields :
         LET aliases  == aliases_of(assign_args.carrier, field)
             matching == {a \in 1..Len(aliases) : alias_matches(assign_args.columns, aliases[a])}
         IN  IF matching = {}
               THEN field \notin DOMAIN assign_result
               ELSE /\ field \in DOMAIN assign_result
                    /\ \E k \in 1..Len(assign_args.columns) :
                         assign_result[field] = assign_args.columns[k]
                    /\ same_header(assign_result[field], aliases[SetMin(matching)])

\* a frame whose first column matches a later alias of policy_number than
\* its second column, normalized for a carrier without format of its own: the
\* field is taken from the second column, and no other field is there
C30_Witness ==
  /\ normalized
  /\ assign_args.carrier = "geico"
  /\ assign_args.columns = <<"Policy", "POLICY NUMBER", "Agent">>
  /\ DOMAIN assign_result = {"policy_number"}
  /\ assign_result.policy_number = "POLICY NUMBER"

=============================================================================
